---- MODULE Spec2Model ----
(***************************************************************************)
(* Ear-clipping triangulation (earcut) and grid re-tessellation (earclip). *)
(*                                                                         *)
(* Ring nodes live in an arena `nd` (a sequence of node records, a node is *)
(* its position in the sequence, Null is 0).  Every function of earcut.ts  *)
(* that walks or rewires the ring is an operator over the arena; the       *)
(* recursion of earcutLinked / splitEarcut is an explicit stack of frames. *)
(* Coordinates are integers; the few divisions of the code (x-intercept of *)
(* the ray in findHoleBridge, the tangent, the crossing in middleInside)   *)
(* are kept as exact fractions and compared by cross-multiplication.       *)
(* A value that a function binds once and reads several times (const l =   *)
(* linkedList(...)) is the parameter of a continuation operator.           *)
(***************************************************************************)
EXTENDS Integers, Sequences, FiniteSets, TLC

VARIABLES data, holeIndices, dim, nd, triangles, outerNode, queue, stack, pc,
          vertices, indices, modulo, axis, slot,
          polygon, offset, infinity, returned,
          minX, minY, invSize

vars == <<data, holeIndices, dim, nd, triangles, outerNode, queue, stack, pc,
          vertices, indices, modulo, axis, slot,
          polygon, offset, infinity, returned,
          minX, minY, invSize>>

Null == 0

(***************************************************************************)
(* Bounds of the enumerated inputs.                                        *)
(***************************************************************************)
MaxCoord == 1
MaxPts == 3
MaxHoles == 1

(***************************************************************************)
(* Small helpers.                                                          *)
(***************************************************************************)
Abs(v) == IF v < 0 THEN -v ELSE v

Min2(u, v) == IF u < v THEN u ELSE v

Max2(u, v) == IF u > v THEN u ELSE v

\* JavaScript arrays are 0-based: At(a, k) is a[k].
At(a, k) == a[k + 1]

\* the arena as built so far: read at every round of a loop, so that a ring
\* of eighty vertices is not left as a chain of eighty pending insertions
Built(ar) == Len(ar) >= 0

\* the same for a number, a flag or a record that a loop carries along
Known(v) == v = v

(***************************************************************************)
(* JavaScript numbers as zOrder and tesselate compute with them: IEEE 754  *)
(* doubles, every result rounded to the nearest one, a tie to the even.  A *)
(* double is Zero or (-1)^neg * (hi * 2^30 + lo) * 2^e with a significand  *)
(* of exactly 53 bits, so equal numbers are equal records (-0 is 0: the    *)
(* code cannot tell them apart).  A wide number <<hi, lo>> stands for      *)
(* hi * 2^30 + lo < 2^60 and carries the unrounded results.                *)
(***************************************************************************)
Limb == 2^30

WAdd(a, b) == <<a[1] + b[1] + (a[2] + b[2]) \div Limb, (a[2] + b[2]) % Limb>>

\* a - b for a >= b
WSub(a, b) ==
  IF a[2] >= b[2]
    THEN <<a[1] - b[1], a[2] - b[2]>>
    ELSE <<a[1] - b[1] - 1, a[2] - b[2] + Limb>>

WLess(a, b) == a[1] < b[1] \/ (a[1] = b[1] /\ a[2] < b[2])

\* floor(a / 2^k)
WShr(a, k) ==
  IF k >= 60
    THEN <<0, 0>>
    ELSE IF k >= 30
           THEN <<0, a[1] \div 2^(k - 30)>>
           ELSE <<a[1] \div 2^k, (a[1] % 2^k) * 2^(30 - k) + a[2] \div 2^k>>

\* a bit of a below bit k is set
WLow(a, k) ==
  IF k >= 60
    THEN a # <<0, 0>>
    ELSE IF k >= 30 THEN a[2] # 0 \/ a[1] % 2^(k - 30) # 0 ELSE a[2] % 2^k # 0

\* a * 2^k, for a product below 2^60
WShl(a, k) ==
  IF k >= 30
    THEN <<a[2] * 2^(k - 30), 0>>
    ELSE <<a[1] * 2^k + a[2] \div 2^(30 - k), (a[2] % 2^(30 - k)) * 2^k>>

\* the number of significant bits of n < 2^30: one for each power of two up to n
IntBits(n) == Cardinality({k \in 0..29 : 2^k <= n})

\* the number of significant bits of a
WBits(a) == IF a[1] # 0 THEN 30 + IntBits(a[1]) ELSE IntBits(a[2])

\* the lowest bit of a set when inexact: the bits below it are not all zero
WJam(a, inexact) == IF inexact /\ a[2] % 2 = 0 THEN <<a[1], a[2] + 1>> ELSE a

Zero == [neg |-> FALSE, hi |-> 0, lo |-> 0, e |-> 0]

Significand(a) == <<a.hi, a.lo>>

Double(neg, w, e) == [neg |-> neg, hi |-> w[1], lo |-> w[2], e |-> e]

\* the quotient q of the cut rounded up carries into bit 53 when all its bits
\* were set
RoundCarry(neg, q, e) ==
  IF q[1] = 2^23 THEN Double(neg, <<2^22, 0>>, e + 1) ELSE Double(neg, q, e)

\* w has more than 53 bits: cut the s lowest, r, to nearest, a tie to even
RoundCut(neg, q, r, s, e) ==
  IF r > 2^(s - 1) \/ (r = 2^(s - 1) /\ q[2] % 2 = 1)
    THEN RoundCarry(neg, WAdd(q, <<0, 1>>), e + s)
    ELSE Double(neg, q, e + s)

RoundBits(neg, w, e, len) ==
  IF len = 0
    THEN Zero
    ELSE IF len <= 53
           THEN Double(neg, WShl(w, 53 - len), e - (53 - len))
           ELSE RoundCut(neg, WShr(w, len - 53), w[2] % 2^(len - 53), len - 53, e)

\* the double nearest to (-1)^neg * w * 2^e; a jammed w has at least 55 bits
Round(neg, w, e) == RoundBits(neg, w, e, WBits(w))

\* an integer below 2^30 in size is a double
FromInt(k) == Round(k < 0, <<0, Abs(k)>>, 0)

\* x % 0 is NaN: it goes through + - and %, and every comparison with it,
\* with itself too, is false
NaN == [nan |-> TRUE]

FNeg(a) == IF a = Zero \/ a = NaN THEN a ELSE [a EXCEPT !.neg = ~a.neg]

\* a === b is a = b
MagLess(a, b) == a.e < b.e \/ (a.e = b.e /\ WLess(Significand(a), Significand(b)))

\* a < b
FLessFinite(a, b) ==
  IF a = Zero
    THEN b # Zero /\ ~b.neg
    ELSE IF b = Zero
           THEN a.neg
           ELSE IF a.neg # b.neg
                  THEN a.neg
                  ELSE IF a.neg THEN MagLess(b, a) ELSE MagLess(a, b)

FLess(a, b) == a # NaN /\ b # NaN /\ FLessFinite(a, b)

\* a <= b
FLeq(a, b) == a # NaN /\ (a = b \/ FLess(a, b))

\* x and y with three more bits each, y moved down to the exponent of x
FAddAligned(x, y, xw, yw) ==
  IF x.neg = y.neg
    THEN Round(x.neg, WAdd(xw, yw), x.e - 3)
    ELSE IF xw = yw
           THEN Zero
           ELSE IF WLess(yw, xw)
                  THEN Round(x.neg, WSub(xw, yw), x.e - 3)
                  ELSE Round(y.neg, WSub(yw, xw), x.e - 3)

FAddShift(x, y, yw, d) ==
  FAddAligned(x, y, WShl(Significand(x), 3),
              IF d >= 56 THEN <<0, 1>> ELSE WJam(WShr(yw, d), WLow(yw, d)))

\* x + y for x.e >= y.e, neither zero
FAddOrdered(x, y) == FAddShift(x, y, WShl(Significand(y), 3), x.e - y.e)

\* a + b
FAddFinite(a, b) ==
  IF a = Zero
    THEN b
    ELSE IF b = Zero
           THEN a
           ELSE IF a.e >= b.e THEN FAddOrdered(a, b) ELSE FAddOrdered(b, a)

FAdd(a, b) == IF a = NaN \/ b = NaN THEN NaN ELSE FAddFinite(a, b)

\* a - b
FSub(a, b) == FAdd(a, FNeg(b))

\* one more bit of the quotient: s = <<rem, q>>, the remainder and the
\* quotient so far, both doubled
FDivBit(rem, q, d) ==
  IF WLess(rem, d) THEN <<rem, q>> ELSE <<WSub(rem, d), <<q[1], q[2] + 1>>>>

FDivStep(s, d) == FDivBit(WAdd(s[1], s[1]), WAdd(s[2], s[2]), d)

\* k more bits, five at a time; no remainder left, the other bits are zero
RECURSIVE FDivLoop(_, _, _)
FDivLoop(s, d, k) ==
  IF k = 0 \/ s[1] = <<0, 0>>
    THEN WJam(WShl(s[2], k), s[1] # <<0, 0>>)
    ELSE FDivLoop(FDivStep(FDivStep(FDivStep(FDivStep(FDivStep(s, d), d), d), d), d),
                  d, k - 5)

\* floor(ma * 2^55 / mb), jammed
FDivBits(ma, mb) ==
  IF WLess(ma, mb)
    THEN FDivLoop(<<ma, <<0, 0>>>>, mb, 55)
    ELSE FDivLoop(<<WSub(ma, mb), <<0, 1>>>>, mb, 55)

\* a / 0 is no finite double, and no operator here takes it
NotFinite == [finite |-> FALSE]

\* a / b, neither overflowing nor underflowing
FDiv(a, b) ==
  IF b = Zero
    THEN NotFinite
    ELSE IF a = Zero
           THEN Zero
         ELSE Round(a.neg # b.neg, FDivBits(Significand(a), Significand(b)), a.e - b.e - 55)

RECURSIVE FRemLoop(_, _, _)
FRemLoop(rem, d, k) ==
  IF k = 0
    THEN rem
    ELSE IF WLess(WAdd(rem, rem), d)
           THEN FRemLoop(WAdd(rem, rem), d, k - 1)
           ELSE FRemLoop(WSub(WAdd(rem, rem), d), d, k - 1)

FRemBits(ma, mb, k) ==
  IF WLess(ma, mb) THEN FRemLoop(ma, mb, k) ELSE FRemLoop(WSub(ma, mb), mb, k)

\* a % b for b # 0: the sign of a, the size of a reduced by whole steps of b
FRemFinite(a, b) ==
  IF a = Zero \/ MagLess(a, b)
    THEN a
    ELSE Round(a.neg, FRemBits(Significand(a), Significand(b), a.e - b.e), b.e)

\* a % b
FRem(a, b) == IF a = NaN \/ b = NaN \/ b = Zero THEN NaN ELSE FRemFinite(a, b)

\* the significand in four pieces of 15 bits, the lowest first
Pieces(w) == <<w[2] % 2^15, w[2] \div 2^15, w[1] % 2^15, w[1] \div 2^15>>

\* the sum over i of the low (or of the high) 15 bits of a[i] * b[k + 2 - i]
RECURSIVE FMulSum(_, _, _, _, _)
FMulSum(a, b, k, i, high) ==
  IF i > 4
    THEN 0
    ELSE (IF k + 2 - i \in 1..4
            THEN IF high
                   THEN (a[i] * b[k + 2 - i]) \div 2^15
                   ELSE (a[i] * b[k + 2 - i]) % 2^15
            ELSE 0)
         + FMulSum(a, b, k, i + 1, high)

\* the eight pieces of 15 bits of the product, the lowest first
RECURSIVE FMulPieces(_, _, _, _)
FMulPiecesWith(a, b, k, t) == <<t % 2^15>> \o FMulPieces(a, b, k + 1, t \div 2^15)

FMulPieces(a, b, k, carry) ==
  IF k > 7
    THEN <<>>
    ELSE FMulPiecesWith(a, b, k,
                        FMulSum(a, b, k, 1, FALSE) + FMulSum(a, b, k - 1, 1, TRUE)
                        + carry)

\* the product without its 46 lowest bits, jammed
FMulBits(l) ==
  WJam(WShr(<<l[8] * 2^30 + l[7] * 2^15 + l[6], l[5] * 2^15 + l[4]>>, 1),
       l[4] % 2 = 1 \/ l[3] # 0 \/ l[2] # 0 \/ l[1] # 0)

\* a * b, neither overflowing nor underflowing
FMul(a, b) ==
  IF a = NaN \/ b = NaN
    THEN NaN
    ELSE IF a = Zero \/ b = Zero
           THEN Zero
           ELSE Round(a.neg # b.neg,
                      FMulBits(FMulPieces(Pieces(Significand(a)),
                                          Pieces(Significand(b)), 0, 0)),
                      a.e + b.e + 46)

\* the 24 lowest bits of the size of a cut to a whole number
TruncBits(a) ==
  IF a.e <= -53
    THEN 0
    ELSE IF a.e < 0
           THEN WShr(Significand(a), -a.e)[2] % 2^24
           ELSE IF a.e >= 24 THEN 0 ELSE (a.lo % 2^(24 - a.e)) * 2^a.e

\* the 24 lowest bits of a | 0, a number in two's complement
Int32Bits(a) ==
  IF a = NaN \/ a = Zero
    THEN 0
    ELSE IF a.neg THEN (2^24 - TruncBits(a)) % 2^24 ELSE TruncBits(a)

(***************************************************************************)
(* class Node: the constructor links the new node after `last`.            *)
(***************************************************************************)
NewNode(i, x, y, self) ==
  [i |-> i, x |-> x, y |-> y, prev |-> self, next |-> self,
   z |-> 0, prevZ |-> Null, nextZ |-> Null, steiner |-> FALSE]

\* new Node(i, x, y, last): returns the arena with the node appended.
InsertNode(ar, i, x, y, last) ==
  LET id == Len(ar) + 1
  IN IF last = Null
       THEN Append(ar, NewNode(i, x, y, id))
       ELSE [Append(ar, [NewNode(i, x, y, id) EXCEPT !.prev = last,
                                                     !.next = ar[last].next])
               EXCEPT ![ar[last].next].prev = id, ![last].next = id]

(***************************************************************************)
(* Geometric predicates.                                                   *)
(***************************************************************************)
\* signed area of a triangle of three nodes
area(ar, p, q, r) ==
  (ar[q].y - ar[p].y) * (ar[r].x - ar[q].x) - (ar[q].x - ar[p].x) * (ar[r].y - ar[q].y)

equals(ar, p1, p2) == ar[p1].x = ar[p2].x /\ ar[p1].y = ar[p2].y

sign(num) == IF num > 0 THEN 1 ELSE IF num < 0 THEN -1 ELSE 0

onSegment(ar, p, q, r) ==
  /\ ar[q].x <= Max2(ar[p].x, ar[r].x)
  /\ ar[q].x >= Min2(ar[p].x, ar[r].x)
  /\ ar[q].y <= Max2(ar[p].y, ar[r].y)
  /\ ar[q].y >= Min2(ar[p].y, ar[r].y)

intersects(ar, p1, q1, p2, q2) ==
  LET o1 == sign(area(ar, p1, q1, p2))
      o2 == sign(area(ar, p1, q1, q2))
      o3 == sign(area(ar, p2, q2, p1))
      o4 == sign(area(ar, p2, q2, q1))
  IN \/ (o1 # o2 /\ o3 # o4)
     \/ (o1 = 0 /\ onSegment(ar, p1, p2, q1))
     \/ (o2 = 0 /\ onSegment(ar, p1, q2, q1))
     \/ (o3 = 0 /\ onSegment(ar, p2, p1, q2))
     \/ (o4 = 0 /\ onSegment(ar, p2, q1, q2))

\* an ear test that sees no vertex inside the ear
pointInTriangleNever(ax, ay, bx, by, cx, cy, px, py) == FALSE

pointInTriangle(ax, ay, bx, by, cx, cy, px, py) ==
  /\ (cx - px) * (ay - py) - (ax - px) * (cy - py) >= 0
  /\ (ax - px) * (by - py) - (bx - px) * (ay - py) >= 0
  /\ (bx - px) * (cy - py) - (cx - px) * (by - py) >= 0

locallyInside(ar, a, b) ==
  IF area(ar, ar[a].prev, a, ar[a].next) < 0
    THEN area(ar, a, b, ar[a].next) >= 0 /\ area(ar, a, ar[a].prev, b) >= 0
    ELSE area(ar, a, b, ar[a].prev) < 0 \/ area(ar, a, ar[a].next, b) < 0

sectorContainsSector(ar, m, p) ==
  /\ area(ar, ar[m].prev, m, ar[p].prev) < 0
  /\ area(ar, ar[p].next, m, ar[m].next) < 0

RECURSIVE intersectsPolygonLoop(_, _, _, _)
intersectsPolygonLoop(ar, a, b, p) ==
  LET pn == ar[p].next
  IN IF /\ ar[p].i # ar[a].i
        /\ ar[pn].i # ar[a].i
        /\ ar[p].i # ar[b].i
        /\ ar[pn].i # ar[b].i
        /\ intersects(ar, p, pn, a, b)
       THEN TRUE
       ELSE IF pn # a THEN intersectsPolygonLoop(ar, a, b, pn) ELSE FALSE

intersectsPolygon(ar, a, b) == intersectsPolygonLoop(ar, a, b, a)

\* px = (a.x + b.x) / 2 and py = (a.y + b.y) / 2 are kept doubled (sx, sy);
\* px < dx * (py - p.y) / dy + p.x is multiplied by 2 * dy, minding dy's sign.
RECURSIVE middleInsideLoop(_, _, _, _, _, _)
middleInsideLoop(ar, a, sx, sy, p, inside) ==
  LET pn == ar[p].next
      dy == ar[pn].y - ar[p].y
      dx == ar[pn].x - ar[p].x
      lhs == (sx - 2 * ar[p].x) * dy
      rhs == dx * (sy - 2 * ar[p].y)
      flip == /\ (2 * ar[p].y > sy) # (2 * ar[pn].y > sy)
              /\ dy # 0
              /\ IF dy > 0 THEN lhs < rhs ELSE lhs > rhs
      ins == IF flip THEN ~inside ELSE inside
  IN IF pn # a /\ Known(inside) THEN middleInsideLoop(ar, a, sx, sy, pn, ins) ELSE ins

middleInside(ar, a, b) ==
  middleInsideLoop(ar, a, ar[a].x + ar[b].x, ar[a].y + ar[b].y, a, FALSE)

\* the zero-length case taken at convex corners (area < 0 for area > 0)
isValidDiagonalConvex(ar, a, b) ==
  /\ ar[ar[a].next].i # ar[b].i
  /\ ar[ar[a].prev].i # ar[b].i
  /\ ~intersectsPolygon(ar, a, b)
  /\ \/ /\ locallyInside(ar, a, b)
        /\ locallyInside(ar, b, a)
        /\ middleInside(ar, a, b)
        /\ (area(ar, ar[a].prev, a, ar[b].prev) # 0 \/ area(ar, a, ar[b].prev, b) # 0)
     \/ /\ equals(ar, a, b)
        /\ area(ar, ar[a].prev, a, ar[a].next) < 0
        /\ area(ar, ar[b].prev, b, ar[b].next) < 0

isValidDiagonal(ar, a, b) ==
  /\ ar[ar[a].next].i # ar[b].i
  /\ ar[ar[a].prev].i # ar[b].i
  /\ ~intersectsPolygon(ar, a, b)
  /\ \/ /\ locallyInside(ar, a, b)
        /\ locallyInside(ar, b, a)
        /\ middleInside(ar, a, b)
        /\ (area(ar, ar[a].prev, a, ar[b].prev) # 0 \/ area(ar, a, ar[b].prev, b) # 0)
     \/ /\ equals(ar, a, b)
        /\ area(ar, ar[a].prev, a, ar[a].next) > 0
        /\ area(ar, ar[b].prev, b, ar[b].next) > 0

(***************************************************************************)
(* Ring surgery.                                                           *)
(***************************************************************************)
\* The z-order links of a node are null unless indexCurve ran, which needs
\* more than 80 vertices; removeNode then only rewires prev / next.
\* p.next.prev = p.prev never changes p's own links, so the second
\* assignment reads the same p.prev and p.next as the first.
\* a removal after which p.prevZ.nextZ is still p
removeNodePrevZKept(ar, p) == ar

\* if (p.prevZ !== null) p.prevZ.nextZ = p.nextZ
removeNodePrevZ(ar, p) ==
  IF ar[p].prevZ # Null THEN [ar EXCEPT ![ar[p].prevZ].nextZ = ar[p].nextZ] ELSE ar

\* if (p.nextZ !== null) p.nextZ.prevZ = p.prevZ
removeNodeNextZ(ar, p) ==
  IF ar[p].nextZ # Null THEN [ar EXCEPT ![ar[p].nextZ].prevZ = ar[p].prevZ] ELSE ar

\* a removal that leaves p.next.prev at p
removeNodeOneWay(ar, p) ==
  removeNodeNextZ(removeNodePrevZ([ar EXCEPT ![ar[p].prev].next = ar[p].next], p), p)

removeNode(ar, p) ==
  removeNodeNextZ(
    removeNodePrevZ(
      [ar EXCEPT ![ar[p].next].prev = ar[p].prev, ![ar[p].prev].next = ar[p].next],
      p),
    p)

\* a split that links a to b and makes no copies
splitPolygonAliased(ar, a, b) ==
  [nd |-> [ar EXCEPT ![a].next = b, ![b].prev = a], node |-> b]

\* the two copies a2, b2 take the next two arena slots; an = a.next and
\* bp = b.prev are read before any link is rewritten
splitPolygon(ar, a, b) ==
  [nd |-> [Append(Append(ar, NewNode(ar[a].i, ar[a].x, ar[a].y, Len(ar) + 1)),
                  NewNode(ar[b].i, ar[b].x, ar[b].y, Len(ar) + 2))
             EXCEPT ![a].next = b,
                    ![b].prev = a,
                    ![Len(ar) + 1].next = ar[a].next,
                    ![ar[a].next].prev = Len(ar) + 1,
                    ![Len(ar) + 2].next = Len(ar) + 1,
                    ![Len(ar) + 1].prev = Len(ar) + 2,
                    ![ar[b].prev].next = Len(ar) + 2,
                    ![Len(ar) + 2].prev = ar[b].prev],
   node |-> Len(ar) + 2]

RECURSIVE signedAreaLoop(_, _, _, _, _, _)
signedAreaLoop(d, i, j, end, dm, sum) ==
  IF i < end /\ sum \in Int
    THEN signedAreaLoop(d, i + dm, i, end, dm,
                        sum + (At(d, j) - At(d, i)) * (At(d, i + 1) + At(d, j + 1)))
    ELSE sum

signedArea(d, start, end, dm) == signedAreaLoop(d, start, end - dm, end, dm, 0)

\* y read from the last coordinate of the vertex
RECURSIVE linkedListFwdLast(_, _, _, _, _, _)
linkedListFwdLast(ar, d, i, end, dm, last) ==
  IF i < end /\ Built(ar)
    THEN linkedListFwdLast(InsertNode(ar, i \div dm, At(d, i), At(d, i + dm - 1), last),
                           d, i + dm, end, dm, Len(ar) + 1)
    ELSE [nd |-> ar, node |-> last]

RECURSIVE linkedListFwd(_, _, _, _, _, _)
linkedListFwd(ar, d, i, end, dm, last) ==
  IF i < end /\ Built(ar)
    THEN linkedListFwd(InsertNode(ar, i \div dm, At(d, i), At(d, i + 1), last),
                       d, i + dm, end, dm, Len(ar) + 1)
    ELSE [nd |-> ar, node |-> last]

RECURSIVE linkedListBwd(_, _, _, _, _, _)
linkedListBwd(ar, d, i, start, dm, last) ==
  IF i >= start /\ Built(ar)
    THEN linkedListBwd(InsertNode(ar, i \div dm, At(d, i), At(d, i + 1), last),
                       d, i - dm, start, dm, Len(ar) + 1)
    ELSE [nd |-> ar, node |-> last]

\* the tail of linkedList: a last node equal to the first is removed
linkedListClose(built) ==
  IF built.node # Null /\ equals(built.nd, built.node, built.nd[built.node].next)
    THEN [nd |-> removeNode(built.nd, built.node), node |-> built.nd[built.node].next]
    ELSE built

\* the list linked in the order of the buffer, whatever the winding asked for
linkedListAsGiven(ar, d, start, end, dm, clockwise) ==
  linkedListClose(linkedListFwd(ar, d, start, end, dm, Null))

\* create a circular doubly linked list in the requested winding order;
\* node is Null for an empty range.
linkedList(ar, d, start, end, dm, clockwise) ==
  linkedListClose(IF clockwise = (signedArea(d, start, end, dm) > 0)
                    THEN linkedListFwd(ar, d, start, end, dm, Null)
                    ELSE linkedListBwd(ar, d, end - dm, start, dm, Null))

RECURSIVE filterPointsOnce(_, _, _)
\* a filter that forgets again = true: it stops at its first removal
filterPointsOnce(ar, p, end) ==
  IF /\ ~ar[p].steiner
     /\ (equals(ar, p, ar[p].next) \/ area(ar, ar[p].prev, p, ar[p].next) = 0)
    THEN [nd |-> removeNode(ar, p), node |-> ar[p].prev]
    ELSE IF ar[p].next # end
           THEN filterPointsOnce(ar, ar[p].next, end)
           ELSE [nd |-> ar, node |-> end]

RECURSIVE filterPointsLoop(_, _, _)
\* after removeNode(p): p = end = p.prev, and the loop goes on unless the
\* ring is down to one node
filterPointsRemoved(ar, q) ==
  IF q = ar[q].next THEN [nd |-> ar, node |-> q] ELSE filterPointsLoop(ar, q, q)

filterPointsLoop(ar, p, end) ==
  IF /\ ~ar[p].steiner
     /\ (equals(ar, p, ar[p].next) \/ area(ar, ar[p].prev, p, ar[p].next) = 0)
    THEN filterPointsRemoved(removeNode(ar, p), ar[p].prev)
    ELSE IF ar[p].next # end
           THEN filterPointsLoop(ar, ar[p].next, end)
           ELSE [nd |-> ar, node |-> end]

\* filterPoints(start, end); filterPoints(start) is filterPoints(start, start)
filterPoints(ar, start, end) == filterPointsLoop(ar, start, end)

(***************************************************************************)
(* Ear test, curing and diagonal search.                                   *)
(***************************************************************************)
RECURSIVE isEarLoopStrict(_, _, _, _, _, _, _, _, _)
\* the loop that lets a vertex with a straight corner pass (area > 0 for >= 0)
isEarLoopStrict(ar, a, b, c, x0, y0, x1, y1, p) ==
  IF p = a
    THEN TRUE
    ELSE IF /\ ar[p].x >= x0
            /\ ar[p].x <= x1
            /\ ar[p].y >= y0
            /\ ar[p].y <= y1
            /\ pointInTriangle(ar[a].x, ar[a].y, ar[b].x, ar[b].y, ar[c].x, ar[c].y,
                               ar[p].x, ar[p].y)
            /\ area(ar, ar[p].prev, p, ar[p].next) > 0
           THEN FALSE
           ELSE isEarLoopStrict(ar, a, b, c, x0, y0, x1, y1, ar[p].next)

RECURSIVE isEarLoop(_, _, _, _, _, _, _, _, _)
isEarLoop(ar, a, b, c, x0, y0, x1, y1, p) ==
  IF p = a
    THEN TRUE
    ELSE IF /\ ar[p].x >= x0
            /\ ar[p].x <= x1
            /\ ar[p].y >= y0
            /\ ar[p].y <= y1
            /\ pointInTriangle(ar[a].x, ar[a].y, ar[b].x, ar[b].y, ar[c].x, ar[c].y,
                               ar[p].x, ar[p].y)
            /\ area(ar, ar[p].prev, p, ar[p].next) >= 0
           THEN FALSE
           ELSE isEarLoop(ar, a, b, c, x0, y0, x1, y1, ar[p].next)

\* the ear test without the check that the corner is convex
isEarAnyCorner(ar, ear) ==
  LET a == ar[ear].prev
      b == ear
      c == ar[ear].next
  IN isEarLoop(ar, a, b, c,
               Min2(ar[a].x, Min2(ar[b].x, ar[c].x)),
               Min2(ar[a].y, Min2(ar[b].y, ar[c].y)),
               Max2(ar[a].x, Max2(ar[b].x, ar[c].x)),
               Max2(ar[a].y, Max2(ar[b].y, ar[c].y)),
               ar[c].next)

\* check whether a polygon node forms a valid ear with adjacent nodes
isEar(ar, ear) ==
  LET a == ar[ear].prev
      b == ear
      c == ar[ear].next
  IN IF area(ar, a, b, c) >= 0
       THEN FALSE
       ELSE isEarLoop(ar, a, b, c,
                      Min2(ar[a].x, Min2(ar[b].x, ar[c].x)),
                      Min2(ar[a].y, Min2(ar[b].y, ar[c].y)),
                      Max2(ar[a].x, Max2(ar[b].x, ar[c].x)),
                      Max2(ar[a].y, Max2(ar[b].y, ar[c].y)),
                      ar[c].next)

(***************************************************************************)
(* The z-order curve.  zOrder works on 32-bit integers: v | 0 cuts the     *)
(* double to a whole number and keeps its 32 lowest bits, and the shifts   *)
(* and masks move the bits of x to the even places and the bits of y to    *)
(* the odd places of the result, which is negative when bit 31 is set.     *)
(***************************************************************************)
\* a | b on numbers of k bits
RECURSIVE BitOr(_, _, _)
BitOr(a, b, k) ==
  IF k = 0
    THEN 0
    ELSE (IF a % 2 = 1 \/ b % 2 = 1 THEN 1 ELSE 0) + 2 * BitOr(a \div 2, b \div 2, k - 1)

\* the k lowest bits of v moved apart, bit i to bit 2i
RECURSIVE Spread(_, _)
Spread(v, k) == IF k = 0 THEN 0 ELSE (v % 2) + 4 * Spread(v \div 2, k - 1)

\* the four rounds x = (x | (x << 8)) & 0x00ff00ff, ... on the 24 lowest bits
\* w of x: the first round keeps bits 0-7 where they are and leaves in bits
\* 16-23 the bits 8-15 or-ed with the bits 16-23; the other rounds move these
\* sixteen bits apart
zOrderSpread(w) ==
  Spread((w % 256) + 256 * BitOr((w \div 256) % 256, w \div 65536, 8), 16)

\* ((v - min) * invSize) | 0, then the four rounds
zOrderBits(v, min, inv) == zOrderSpread(Int32Bits(FMul(FromInt(v - min), inv)))

\* x | (y << 1) as a 32-bit integer
zOrderJoin(xs, ys) ==
  IF ys >= 2^30 THEN xs + 2 * (ys - 2^30) - 2^30 - 2^30 ELSE xs + 2 * ys

zOrder(x, y, mnX, mnY, inv) ==
  zOrderJoin(zOrderBits(x, mnX, inv), zOrderBits(y, mnY, inv))

\* the nodes of the ring from p to the one before start, in the order of next
RECURSIVE ringFrom(_, _, _)
ringFrom(ar, p, start) ==
  IF ar[p].next = start THEN <<p>> ELSE <<p>> \o ringFrom(ar, ar[p].next, start)

\* one merge of sortLinked: the runs P and Q in the order of z, a node of P
\* before a node of Q with the same z
RECURSIVE sortLinkedMergeStrict(_, _, _)
\* a merge that takes from Q when the two heads have the same z (< for <=)
sortLinkedMergeStrict(ar, P, Q) ==
  IF P = <<>>
    THEN Q
    ELSE IF Q = <<>>
           THEN P
           ELSE IF ar[Head(P)].z < ar[Head(Q)].z
                  THEN <<Head(P)>> \o sortLinkedMergeStrict(ar, Tail(P), Q)
                  ELSE <<Head(Q)>> \o sortLinkedMergeStrict(ar, P, Tail(Q))

RECURSIVE sortLinkedMerge(_, _, _)
sortLinkedMerge(ar, P, Q) ==
  IF P = <<>>
    THEN Q
    ELSE IF Q = <<>>
           THEN P
           ELSE IF ar[Head(P)].z <= ar[Head(Q)].z
                  THEN <<Head(P)>> \o sortLinkedMerge(ar, Tail(P), Q)
                  ELSE <<Head(Q)>> \o sortLinkedMerge(ar, P, Tail(Q))

\* one round of the outer loop: every two runs of inSize nodes are merged
RECURSIVE sortLinkedRound(_, _, _)
sortLinkedRound(ar, L, inSize) ==
  IF L = <<>>
    THEN <<>>
    ELSE sortLinkedMerge(ar, SubSeq(L, 1, Min2(inSize, Len(L))),
                         SubSeq(L, inSize + 1, Min2(2 * inSize, Len(L))))
         \o sortLinkedRound(ar, SubSeq(L, 2 * inSize + 1, Len(L)), inSize)

\* inSize *= 2 while (numMerges > 1)
RECURSIVE sortLinkedLoop(_, _, _)
sortLinkedLoop(ar, L, inSize) ==
  IF Len(L) <= 2 * inSize
    THEN sortLinkedRound(ar, L, inSize)
    ELSE sortLinkedLoop(ar, sortLinkedRound(ar, L, inSize), 2 * inSize)

\* the links prevZ and nextZ as the merges leave them: L is the list
RECURSIVE sortLinkedLinks(_, _, _)
sortLinkedLinks(ar, L, k) ==
  IF k > Len(L) \/ ~Built(ar)
    THEN ar
    ELSE sortLinkedLinks(
           [ar EXCEPT ![L[k]].prevZ = IF k = 1 THEN Null ELSE L[k - 1],
                      ![L[k]].nextZ = IF k = Len(L) THEN Null ELSE L[k + 1]],
           L, k + 1)

\* Simon Tatham's merge sort of the list L of nodes chained by nextZ
sortLinked(ar, L) == sortLinkedLinks(ar, sortLinkedLoop(ar, L, 1), 1)

\* if (p.z === 0) p.z = zOrder(p.x, p.y, minX, minY, invSize)
RECURSIVE indexCurveZ(_, _, _, _, _, _)
indexCurveZ(ar, L, k, mnX, mnY, inv) ==
  IF k > Len(L) \/ ~Built(ar)
    THEN ar
    ELSE indexCurveZ(
           IF ar[L[k]].z = 0
             THEN [ar EXCEPT ![L[k]].z = zOrder(ar[L[k]].x, ar[L[k]].y, mnX, mnY, inv)]
             ELSE ar,
           L, k + 1, mnX, mnY, inv)

indexCurveList(ar, L, mnX, mnY, inv) ==
  sortLinked(indexCurveZ(ar, L, 1, mnX, mnY, inv), L)

\* interlink polygon nodes in z-order: the list starts as the ring from start
indexCurve(ar, start, mnX, mnY, inv) ==
  indexCurveList(ar, ringFrom(ar, start, start), mnX, mnY, inv)

\* the test of a node p of the z-order list against the triangle t
isEarHashedHit(ar, t, p) ==
  /\ ar[p].x >= t.x0
  /\ ar[p].x <= t.x1
  /\ ar[p].y >= t.y0
  /\ ar[p].y <= t.y1
  /\ p # t.a
  /\ p # t.c
  /\ pointInTriangle(ar[t.a].x, ar[t.a].y, ar[t.b].x, ar[t.b].y, ar[t.c].x, ar[t.c].y,
                     ar[p].x, ar[p].y)
  /\ area(ar, ar[p].prev, p, ar[p].next) >= 0

\* look for remaining points in decreasing z-order
RECURSIVE isEarHashedPrev(_, _, _)
isEarHashedPrev(ar, t, p) ==
  IF p = Null
    THEN TRUE
    ELSE IF ar[p].z < t.minZ
           THEN TRUE
           ELSE IF isEarHashedHit(ar, t, p)
                  THEN FALSE
                  ELSE isEarHashedPrev(ar, t, ar[p].prevZ)

\* look for remaining points in increasing z-order
RECURSIVE isEarHashedNext(_, _, _)
isEarHashedNext(ar, t, n) ==
  IF n = Null
    THEN TRUE
    ELSE IF ar[n].z > t.maxZ
           THEN TRUE
           ELSE IF isEarHashedHit(ar, t, n)
                  THEN FALSE
                  ELSE isEarHashedNext(ar, t, ar[n].nextZ)

\* look for points inside the triangle in both directions
RECURSIVE isEarHashedBoth(_, _, _, _)
isEarHashedBoth(ar, t, p, n) ==
  IF p = Null \/ n = Null
    THEN isEarHashedPrev(ar, t, p) /\ isEarHashedNext(ar, t, n)
    ELSE IF ar[p].z < t.minZ \/ ar[n].z > t.maxZ
           THEN isEarHashedPrev(ar, t, p) /\ isEarHashedNext(ar, t, n)
           ELSE IF isEarHashedHit(ar, t, p) \/ isEarHashedHit(ar, t, n)
                  THEN FALSE
                  ELSE isEarHashedBoth(ar, t, ar[p].prevZ, ar[n].nextZ)

\* the triangle of the ear, its bbox and the z-order range of the bbox
isEarHashedBox(ar, a, b, c, x0, y0, x1, y1, mnX, mnY, inv) ==
  [a |-> a, b |-> b, c |-> c, x0 |-> x0, y0 |-> y0, x1 |-> x1, y1 |-> y1,
   minZ |-> zOrder(x0, y0, mnX, mnY, inv), maxZ |-> zOrder(x1, y1, mnX, mnY, inv)]

isEarHashedTriangle(ar, a, b, c, mnX, mnY, inv) ==
  isEarHashedBox(ar, a, b, c,
                 Min2(ar[a].x, Min2(ar[b].x, ar[c].x)),
                 Min2(ar[a].y, Min2(ar[b].y, ar[c].y)),
                 Max2(ar[a].x, Max2(ar[b].x, ar[c].x)),
                 Max2(ar[a].y, Max2(ar[b].y, ar[c].y)),
                 mnX, mnY, inv)

isEarHashed(ar, ear, mnX, mnY, inv) ==
  IF area(ar, ar[ear].prev, ear, ar[ear].next) >= 0
    THEN FALSE
    ELSE isEarHashedBoth(ar,
                         isEarHashedTriangle(ar, ar[ear].prev, ear, ar[ear].next,
                                             mnX, mnY, inv),
                         ar[ear].prevZ, ar[ear].nextZ)

RECURSIVE cureLoop(_, _, _, _)
\* p = p.next; while (p !== start)
cureNext(ar, tris, p, start) ==
  IF ar[p].next # start /\ Built(tris)
    THEN cureLoop(ar, tris, ar[p].next, start)
    ELSE [nd |-> ar, triangles |-> tris, node |-> ar[p].next]

\* a cure that pushes a and p without b
cureLoopPair(ar, tris, p, start) ==
  IF /\ ~equals(ar, ar[p].prev, ar[ar[p].next].next)
     /\ intersects(ar, ar[p].prev, p, ar[p].next, ar[ar[p].next].next)
     /\ locallyInside(ar, ar[p].prev, ar[ar[p].next].next)
     /\ locallyInside(ar, ar[ar[p].next].next, ar[p].prev)
    THEN cureNext(removeNode(removeNode(ar, p), ar[p].next),
                  tris \o <<ar[ar[p].prev].i, ar[p].i>>,
                  ar[ar[p].next].next, ar[ar[p].next].next)
    ELSE cureNext(ar, tris, p, start)

\* with a = p.prev and b = p.next.next: a crossing of (a, p) and (p.next, b)
\* emits (a, p, b), removes p and p.next and restarts the lap at b
cureLoop(ar, tris, p, start) ==
  IF /\ ~equals(ar, ar[p].prev, ar[ar[p].next].next)
     /\ intersects(ar, ar[p].prev, p, ar[p].next, ar[ar[p].next].next)
     /\ locallyInside(ar, ar[p].prev, ar[ar[p].next].next)
     /\ locallyInside(ar, ar[ar[p].next].next, ar[p].prev)
    THEN cureNext(removeNode(removeNode(ar, p), ar[p].next),
                  tris \o <<ar[ar[p].prev].i, ar[p].i, ar[ar[ar[p].next].next].i>>,
                  ar[ar[p].next].next, ar[ar[p].next].next)
    ELSE cureNext(ar, tris, p, start)

\* return filterPoints(p), the triangles pushed so far kept
cureFiltered(c, f) == [nd |-> f.nd, triangles |-> c.triangles, node |-> f.node]

cureFilter(c) == cureFiltered(c, filterPoints(c.nd, c.node, c.node))

\* go through all polygon nodes and cure small local self-intersections
cureLocalIntersections(ar, start, tris) == cureFilter(cureLoop(ar, tris, start, start))

\* the first pair (a, b) of splitEarcut's double loop that is a valid
\* diagonal, or <<Null, Null>> when the loops run out
RECURSIVE findDiagonal(_, _, _, _)
findDiagonal(ar, start, a, b) ==
  IF b # ar[a].prev
    THEN IF ar[a].i # ar[b].i /\ isValidDiagonal(ar, a, b)
           THEN <<a, b>>
           ELSE findDiagonal(ar, start, a, ar[b].next)
    ELSE LET a2 == ar[a].next
         IN IF a2 # start
              THEN findDiagonal(ar, start, a2, ar[ar[a2].next].next)
              ELSE <<Null, Null>>

(***************************************************************************)
(* Hole elimination.                                                       *)
(***************************************************************************)
RECURSIVE getLeftmostLoop(_, _, _, _)
getLeftmostLoop(ar, start, p, leftmost) ==
  LET lm == IF \/ ar[p].x < ar[leftmost].x
               \/ (ar[p].x = ar[leftmost].x /\ ar[p].y < ar[leftmost].y)
              THEN p
              ELSE leftmost
      pn == ar[p].next
  IN IF pn # start /\ Known(leftmost) THEN getLeftmostLoop(ar, start, pn, lm) ELSE lm

getLeftmost(ar, start) == getLeftmostLoop(ar, start, start, start)

compareX(ar, a, b) == ar[a].x - ar[b].x

\* Array.prototype.sort with compareX: a stable sort, here by insertion
RECURSIVE insertSorted(_, _, _)
insertSorted(ar, q, h) ==
  IF q = <<>>
    THEN <<h>>
    ELSE IF compareX(ar, q[Len(q)], h) > 0
           THEN Append(insertSorted(ar, SubSeq(q, 1, Len(q) - 1), h), q[Len(q)])
           ELSE Append(q, h)

RECURSIVE sortQueue(_, _)
sortQueue(ar, q) ==
  IF q = <<>>
    THEN <<>>
    ELSE insertSorted(ar, sortQueue(ar, SubSeq(q, 1, Len(q) - 1)), q[Len(q)])

\* A value x of the first loop of findHoleBridge is the fraction n / d, d > 0;
\* qx = -Infinity is inf = TRUE.
NegInf == [inf |-> TRUE, n |-> 0, d |-> 1]

\* first loop of findHoleBridge: [m, qx, touch]; m = Null when no segment is hit
RECURSIVE bridgeRay(_, _, _, _, _, _)
bridgeRay(ar, hole, outer, p, qx, m) ==
  LET hx == ar[hole].x
      hy == ar[hole].y
      pn == ar[p].next
      dy == ar[pn].y - ar[p].y
      hit == hy <= ar[p].y /\ hy >= ar[pn].y /\ dy # 0
      \* x = p.x + (hy - p.y) * (p.next.x - p.x) / (p.next.y - p.y), with dy < 0
      xn == -(ar[p].x * dy + (hy - ar[p].y) * (ar[pn].x - ar[p].x))
      xd == -dy
      better == /\ hit
                /\ xn <= hx * xd
                /\ (qx.inf \/ xn * qx.d > qx.n * xd)
      qx2 == IF better THEN [inf |-> FALSE, n |-> xn, d |-> xd] ELSE qx
      m2 == IF better THEN (IF ar[p].x < ar[pn].x THEN p ELSE pn) ELSE m
  IN IF better /\ xn = hx * xd
       THEN [m |-> m2, qx |-> qx2, touch |-> TRUE]
       ELSE IF pn # outer /\ Known(qx) /\ Known(m)
              THEN bridgeRay(ar, hole, outer, pn, qx2, m2)
              ELSE [m |-> m2, qx |-> qx2, touch |-> FALSE]

\* second loop of findHoleBridge; tanMin is the fraction tn / td (Infinity: tinf)
RECURSIVE bridgeScan(_, _, _, _, _, _, _, _, _, _)
bridgeScan(ar, hole, stop, qx, mx, my, p, m, tinf, tan) ==
  LET hx == ar[hole].x
      hy == ar[hole].y
      \* all coordinates scaled by qx.d > 0: the signs of pointInTriangle stay
      s == qx.d
      inTri == /\ hx >= ar[p].x
               /\ ar[p].x >= mx
               /\ hx # ar[p].x
               /\ pointInTriangle(IF hy < my THEN hx * s ELSE qx.n, hy * s,
                                  mx * s, my * s,
                                  IF hy < my THEN qx.n ELSE hx * s, hy * s,
                                  ar[p].x * s, ar[p].y * s)
      tn == Abs(hy - ar[p].y)
      td == hx - ar[p].x
      less == tinf \/ tn * tan[2] < tan[1] * td
      same == ~tinf /\ tn * tan[2] = tan[1] * td
      take == /\ inTri
              /\ locallyInside(ar, p, hole)
              /\ \/ less
                 \/ /\ same
                    /\ \/ ar[p].x > ar[m].x
                       \/ (ar[p].x = ar[m].x /\ sectorContainsSector(ar, m, p))
      m2 == IF take THEN p ELSE m
      tinf2 == IF take THEN FALSE ELSE tinf
      tan2 == IF take THEN <<tn, td>> ELSE tan
      pn == ar[p].next
  IN IF pn # stop /\ Known(m) /\ Known(tinf) /\ Known(tan)
       THEN bridgeScan(ar, hole, stop, qx, mx, my, pn, m2, tinf2, tan2)
       ELSE m2

findHoleBridgeFrom(ar, hole, ray) ==
  IF ray.touch
    THEN ray.m
    ELSE IF ray.m = Null
           THEN Null
           ELSE bridgeScan(ar, hole, ray.m, ray.qx, ar[ray.m].x, ar[ray.m].y,
                           ray.m, ray.m, TRUE, <<0, 1>>)

\* the endpoint of the edge that the ray hits, whatever lies before it
findHoleBridgeUnscanned(ar, hole, outer) ==
  bridgeRay(ar, hole, outer, outer, NegInf, Null).m

\* David Eberly's algorithm for finding a bridge between hole and outer polygon
findHoleBridge(ar, hole, outer) ==
  findHoleBridgeFrom(ar, hole, bridgeRay(ar, hole, outer, outer, NegInf, Null))

\* filterPoints(bridgeReverse, bridgeReverse.next), then
\* return filterPoints(bridge, bridge.next)
eliminateHoleFilter2(f1, bridge) == filterPoints(f1.nd, bridge, f1.nd[bridge].next)

eliminateHoleFilter(sp, bridge) ==
  eliminateHoleFilter2(filterPoints(sp.nd, sp.node, sp.nd[sp.node].next), bridge)

\* the same with the hole handed back as the outer ring when no bridge is found
eliminateHoleWithLost(ar, hole, outer, bridge) ==
  IF bridge = Null
    THEN [nd |-> ar, node |-> hole]
    ELSE eliminateHoleFilter(splitPolygon(ar, bridge, hole), bridge)

eliminateHoleWith(ar, hole, outer, bridge) ==
  IF bridge = Null
    THEN [nd |-> ar, node |-> outer]
    ELSE eliminateHoleFilter(splitPolygon(ar, bridge, hole), bridge)

\* find a bridge between hole and outer ring and link it
eliminateHole(ar, hole, outer) ==
  eliminateHoleWith(ar, hole, outer, findHoleBridge(ar, hole, outer))

RECURSIVE buildQueue(_, _, _, _, _, _)
\* list = linkedList(...); if (list === list.next) list.steiner = true;
\* queue.push(getLeftmost(list)).  Reading list.next off a null list throws.
buildQueueList(l, d, holes, dm, k, q) ==
  IF l.node = Null
    THEN [nd |-> l.nd, queue |-> q, threw |-> TRUE]
    ELSE buildQueue(IF l.node = l.nd[l.node].next
                      THEN [l.nd EXCEPT ![l.node].steiner = TRUE]
                      ELSE l.nd,
                    d, holes, dm, k + 1, Append(q, getLeftmost(l.nd, l.node)))

\* first loop of eliminateHoles: one ring per hole, its leftmost node queued
buildQueue(ar, d, holes, dm, k, q) ==
  IF k > Len(holes)
    THEN [nd |-> ar, queue |-> q, threw |-> FALSE]
    ELSE buildQueueList(linkedList(ar, d, holes[k] * dm,
                                   IF k < Len(holes) THEN holes[k + 1] * dm ELSE Len(d),
                                   dm, FALSE),
                        d, holes, dm, k, q)

(***************************************************************************)
(* The program as a state machine.  A state record s carries the values of *)
(* the variables; every step is an enabling condition and an effect on s,  *)
(* so that a whole call can also be evaluated as a function (Run).         *)
(***************************************************************************)
\* more than 80 vertices switch on the z-order hash (invSize # 0)
HashThreshold == 80

Frame(fn, ear, stop, pass, at) ==
  [fn |-> fn, ear |-> ear, stop |-> stop, pass |-> pass, at |-> at]

Top(s) == s.stack[Len(s.stack)]

Pop(stk) == SubSeq(stk, 1, Len(stk) - 1)

SetTop(stk, f) == [stk EXCEPT ![Len(stk)] = f]

\* earcutLinked(ear, ..., pass) is entered: a null ear returns at once,
\* otherwise the loop starts with stop = ear
Call(stk, ear, pass) ==
  IF ear = Null THEN stk ELSE Append(stk, Frame("earcutLinked", ear, ear, pass, "loop"))

\* if (pass === 0 && invSize !== 0) indexCurve(ear, minX, minY, invSize),
\* after the test of a null ear
Enter(s, stk, ear, pass) ==
  IF ear = Null
    THEN [s EXCEPT !.stack = stk]
    ELSE [s EXCEPT !.stack = Call(stk, ear, pass),
                   !.nd = IF pass = 0 /\ s.invSize # Zero
                            THEN indexCurve(s.nd, ear, s.minX, s.minY, s.invSize)
                            ELSE s.nd]

\* invSize !== 0 ? isEarHashed(ear, minX, minY, invSize) : isEar(ear)
IsEar(s, ear) ==
  IF s.invSize # Zero
    THEN isEarHashed(s.nd, ear, s.minX, s.minY, s.invSize)
    ELSE isEar(s.nd, ear)

InLoop(s) ==
  /\ s.pc = "earcutLinked"
  /\ s.stack # <<>>
  /\ Top(s).fn = "earcutLinked"
  /\ Top(s).at = "loop"

Stuck(s, pass) ==
  /\ s.pc = "earcutLinked"
  /\ s.stack # <<>>
  /\ Top(s).fn = "earcutLinked"
  /\ Top(s).at = "stuck"
  /\ Top(s).pass = pass

\* earcut(): build the outer ring; fewer than three nodes return no triangle
EarcutEn(s) == s.pc = "earcut"

\* a ring of one or two nodes goes on to be triangulated
EarcutWithNoReturn(s, l) ==
  [s EXCEPT !.nd = l.nd,
            !.outerNode = l.node,
            !.pc = IF l.node = Null
                     THEN "done"
                     ELSE IF Len(s.holeIndices) > 0 THEN "eliminateHoles" ELSE "bbox"]

EarcutWith(s, l) ==
  [s EXCEPT !.nd = l.nd,
            !.outerNode = l.node,
            !.pc = IF l.node = Null \/ l.nd[l.node].next = l.nd[l.node].prev
                     THEN "done"
                     ELSE IF Len(s.holeIndices) > 0 THEN "eliminateHoles" ELSE "bbox"]

EarcutDo(s) ==
  EarcutWith(s, linkedList(<<>>, s.data, 0,
                           IF Len(s.holeIndices) > 0
                             THEN s.holeIndices[1] * s.dim
                             ELSE Len(s.data),
                           s.dim, TRUE))

\* eliminateHoles(), first loop and the sort
EliminateHolesEn(s) == s.pc = "eliminateHoles"

EliminateHolesWith(s, b) ==
  IF b.threw
    THEN [s EXCEPT !.nd = b.nd, !.pc = "threw"]
    ELSE [s EXCEPT !.nd = b.nd,
                   !.queue = sortQueue(b.nd, b.queue),
                   !.pc = "eliminateHole"]

EliminateHolesDo(s) ==
  EliminateHolesWith(s, buildQueue(s.nd, s.data, s.holeIndices, s.dim, 1, <<>>))

\* eliminateHoles(), one round of the second loop
EliminateHoleEn(s) == s.pc = "eliminateHole" /\ s.queue # <<>>

EliminateHoleWith(s, r) ==
  [s EXCEPT !.nd = r.nd,
            !.outerNode = r.node,
            !.queue = Tail(s.queue),
            !.pc = IF Tail(s.queue) = <<>> THEN "bbox" ELSE "eliminateHole"]

EliminateHoleDo(s) ==
  EliminateHoleWith(s, eliminateHole(s.nd, Head(s.queue), s.outerNode))

EarcutLinkedStartEn(s) == s.pc = "bbox"

\* the bounding box of the outer ring, from the vertex at i on
RECURSIVE bboxLoop(_, _, _, _, _)
bboxLoop(d, dm, i, outerLen, b) ==
  IF i >= outerLen \/ b.minX > b.maxX
    THEN b
    ELSE bboxLoop(d, dm, i + dm, outerLen,
                  [minX |-> Min2(b.minX, At(d, i)), minY |-> Min2(b.minY, At(d, i + 1)),
                   maxX |-> Max2(b.maxX, At(d, i)), maxY |-> Max2(b.maxY, At(d, i + 1))])

\* invSize = Math.max(maxX - minX, maxY - minY);
\* invSize = invSize !== 0 ? 1 / invSize : 0
bboxSize(b, size) ==
  [minX |-> b.minX, minY |-> b.minY,
   invSize |-> IF size # 0 THEN FDiv(FromInt(1), FromInt(size)) ELSE Zero]

bboxOf(b) == bboxSize(b, Max2(b.maxX - b.minX, b.maxY - b.minY))

\* up to 80 vertices invSize stays 0 and minX, minY, left at Infinity by the
\* code, are never read
NoBox == [minX |-> 0, minY |-> 0, invSize |-> Zero]

\* if (data.length > 80 * dim): the bounding box of the outer ring
bbox(d, holes, dm) ==
  IF Len(d) > HashThreshold * dm
    THEN bboxOf(bboxLoop(d, dm, dm, IF Len(holes) > 0 THEN holes[1] * dm ELSE Len(d),
                         [minX |-> At(d, 0), minY |-> At(d, 1),
                          maxX |-> At(d, 0), maxY |-> At(d, 1)]))
    ELSE NoBox

\* the ring stripped of its collinear vertices before the first pass
EarcutLinkedStartFilteredWith(s, f) ==
  [s EXCEPT !.nd = f.nd, !.stack = Call(<<>>, f.node, 0), !.pc = "earcutLinked"]

EarcutLinkedStartFiltered(s) ==
  EarcutLinkedStartFilteredWith(s, filterPoints(s.nd, s.outerNode, s.outerNode))

\* earcutLinked(outerNode, triangles, dim, minX, minY, invSize, 0)
EarcutLinkedStartWith(s, box) ==
  Enter([s EXCEPT !.minX = box.minX, !.minY = box.minY, !.invSize = box.invSize,
                  !.pc = "earcutLinked"],
        <<>>, s.outerNode, 0)

EarcutLinkedStartDo(s) ==
  EarcutLinkedStartWith(s, bbox(s.data, s.holeIndices, s.dim))

\* while (ear.prev !== ear.next) fails: earcutLinked returns
LoopExitEn(s) == InLoop(s) /\ s.nd[Top(s).ear].prev = s.nd[Top(s).ear].next

LoopExitDo(s) == [s EXCEPT !.stack = Pop(s.stack)]

\* the ear is cut off
CutEarEn(s) ==
  /\ InLoop(s)
  /\ s.nd[Top(s).ear].prev # s.nd[Top(s).ear].next
  /\ IsEar(s, Top(s).ear)

\* triangles.push(prev.i, ear.i, next.i); removeNode(ear);
\* ear = next.next; stop = next.next, read after the removal
\* the triangle is pushed and the ear is left on the ring
CutEarKeeping(s, f, prev, next, r) ==
  [s EXCEPT !.triangles = s.triangles \o <<s.nd[prev].i, s.nd[f.ear].i, s.nd[next].i>>,
            !.stack = SetTop(s.stack, [f EXCEPT !.ear = r[next].next,
                                                !.stop = r[next].next])]

CutEarWith(s, f, prev, next, r) ==
  [s EXCEPT !.triangles = s.triangles \o <<s.nd[prev].i, s.nd[f.ear].i, s.nd[next].i>>,
            !.nd = r,
            !.stack = SetTop(s.stack, [f EXCEPT !.ear = r[next].next,
                                                !.stop = r[next].next])]

CutEarDo(s) ==
  CutEarWith(s, Top(s), s.nd[Top(s).ear].prev, s.nd[Top(s).ear].next,
             removeNode(s.nd, Top(s).ear))

\* not an ear: move on; a full lap without an ear leaves the loop stuck
NextEarEn(s) ==
  /\ InLoop(s)
  /\ s.nd[Top(s).ear].prev # s.nd[Top(s).ear].next
  /\ ~IsEar(s, Top(s).ear)

\* a loop that never notices it is back at stop
NextEarNoStop(s, f, next) ==
  [s EXCEPT !.stack = SetTop(s.stack, [f EXCEPT !.ear = next, !.at = "loop"])]

NextEarWith(s, f, next) ==
  [s EXCEPT !.stack = SetTop(s.stack,
              [f EXCEPT !.ear = next,
                        !.at = IF next = f.stop THEN "stuck" ELSE "loop"])]

NextEarDo(s) == NextEarWith(s, Top(s), s.nd[Top(s).ear].next)

\* pass 0: earcutLinked(filterPoints(ear), ..., 1)
FilterPassEn(s) == Stuck(s, 0)

\* pass 0 that goes on to pass 2 at once
FilterPassSkipping(s, f, r) ==
  [s EXCEPT !.nd = r.nd,
            !.stack = Call(SetTop(s.stack, [f EXCEPT !.at = "called"]), r.node, 2)]

FilterPassWith(s, f, r) ==
  [s EXCEPT !.nd = r.nd,
            !.stack = Call(SetTop(s.stack, [f EXCEPT !.at = "called"]), r.node, 1)]

FilterPassDo(s) == FilterPassWith(s, Top(s), filterPoints(s.nd, Top(s).ear, Top(s).ear))

\* pass 1: ear = cureLocalIntersections(filterPoints(ear)); earcutLinked(ear, ..., 2)
CurePassEn(s) == Stuck(s, 1)

CurePassWith(s, f, c) ==
  [s EXCEPT !.nd = c.nd,
            !.triangles = c.triangles,
            !.stack = Call(SetTop(s.stack, [f EXCEPT !.ear = c.node, !.at = "called"]),
                           c.node, 2)]

CurePassCure(s, r) == CurePassWith(s, Top(s), cureLocalIntersections(r.nd, r.node, s.triangles))

CurePassDo(s) == CurePassCure(s, filterPoints(s.nd, Top(s).ear, Top(s).ear))

\* pass 2: splitEarcut(ear) up to its first earcutLinked call, or to its
\* return when no diagonal is valid
SplitPassEn(s) == Stuck(s, 2)

\* earcutLinked(a, ..., 0) is called; c waits in splitEarcut's frame
SplitPassCall(s, waiting, fa, fc) ==
  Enter([s EXCEPT !.nd = fc.nd],
        Append(waiting, Frame("splitEarcut", fc.node, Null, 0, "first")),
        fa.node, 0)

\* c = filterPoints(c, c.next)
SplitPassFilterC(s, waiting, c, fa) ==
  SplitPassCall(s, waiting, fa, filterPoints(fa.nd, c, fa.nd[c].next))

\* c = splitPolygon(a, b); a = filterPoints(a, a.next)
SplitPassFilterA(s, waiting, a, sp) ==
  SplitPassFilterC(s, waiting, sp.node, filterPoints(sp.nd, a, sp.nd[a].next))

SplitPassWith(s, waiting, d) ==
  IF d[1] = Null
    THEN [s EXCEPT !.stack = waiting]
    ELSE SplitPassFilterA(s, waiting, d[1], splitPolygon(s.nd, d[1], d[2]))

SplitPassDo(s) ==
  SplitPassWith(s, SetTop(s.stack, [Top(s) EXCEPT !.at = "called"]),
                findDiagonal(s.nd, Top(s).ear, Top(s).ear,
                             s.nd[s.nd[Top(s).ear].next].next))

\* splitEarcut: the first half is done, earcutLinked(c, ..., 0)
SplitSecondEn(s) ==
  /\ s.pc = "earcutLinked"
  /\ s.stack # <<>>
  /\ Top(s).fn = "splitEarcut"
  /\ Top(s).at = "first"

SplitSecondDo(s) ==
  Enter(s, SetTop(s.stack, [Top(s) EXCEPT !.at = "second"]), Top(s).ear, 0)

\* the callee has returned: break out of the loop, or leave splitEarcut
ReturnEn(s) ==
  /\ s.pc = "earcutLinked"
  /\ s.stack # <<>>
  /\ \/ (Top(s).fn = "earcutLinked" /\ Top(s).at = "called")
     \/ (Top(s).fn = "splitEarcut" /\ Top(s).at = "second")

ReturnDo(s) == [s EXCEPT !.stack = Pop(s.stack)]

\* earcut() returns the triangles
FinishEn(s) == s.pc = "earcutLinked" /\ s.stack = <<>>

FinishDo(s) == [s EXCEPT !.pc = "done"]

Terminal(s) == s.pc \in {"done", "threw"}

Step(s) ==
  CASE EarcutEn(s) -> EarcutDo(s)
    [] EliminateHolesEn(s) -> EliminateHolesDo(s)
    [] EliminateHoleEn(s) -> EliminateHoleDo(s)
    [] EarcutLinkedStartEn(s) -> EarcutLinkedStartDo(s)
    [] LoopExitEn(s) -> LoopExitDo(s)
    [] CutEarEn(s) -> CutEarDo(s)
    [] NextEarEn(s) -> NextEarDo(s)
    [] FilterPassEn(s) -> FilterPassDo(s)
    [] CurePassEn(s) -> CurePassDo(s)
    [] SplitPassEn(s) -> SplitPassDo(s)
    [] SplitSecondEn(s) -> SplitSecondDo(s)
    [] ReturnEn(s) -> ReturnDo(s)
    [] FinishEn(s) -> FinishDo(s)

\* the state in which a call of earcut(d, holes, dm) ends
RECURSIVE Run(_)
Run(s) == IF Terminal(s) THEN s ELSE Run(Step(s))

Entry(d, holes, dm) ==
  [data |-> d, holeIndices |-> holes, dim |-> dm, nd |-> <<>>, triangles |-> <<>>,
   outerNode |-> Null, queue |-> <<>>, stack |-> <<>>, pc |-> "earcut",
   minX |-> 0, minY |-> 0, invSize |-> Zero]

(***************************************************************************)
(* Inputs.                                                                 *)
(***************************************************************************)
Buffers(n, dm) == [1..(dm * n) -> 0..MaxCoord]

\* non-decreasing hole starts within a buffer of n vertices
HoleLists(n) ==
  {h \in UNION {[1..k -> 0..n] : k \in 0..MaxHoles} :
     \A k \in 1..(Len(h) - 1) : h[k] <= h[k + 1]}

\* a square outer ring of side FrameSize, in either winding, around a hole ring
\* of MaxPts vertices taken from the grid points strictly inside it
FrameSize == 3

FrameRings ==
  {<<0, 0, FrameSize, 0, FrameSize, FrameSize, 0, FrameSize>>,
   <<0, 0, 0, FrameSize, FrameSize, FrameSize, FrameSize, 0>>}

FrameHoles == [1..(2 * MaxPts) -> 1..(FrameSize - 1)]

\* concave rings in a square of side NotchSize, the last two with a corner
\* between the hole and the edge left of it, around a hole of three vertices
\* taken from the grid points strictly inside the square
NotchSize == 4

NotchRings ==
  {<<0, 0, NotchSize, 0, NotchSize, NotchSize, 0, NotchSize, 1, 2>>,
   <<0, 0, NotchSize, 0, NotchSize, NotchSize, 2, 3, 0, NotchSize>>,
   <<0, 0, 2, 1, NotchSize, 0, NotchSize, NotchSize, 0, NotchSize>>,
   <<0, 0, NotchSize, 0, NotchSize, NotchSize, 0, NotchSize, 2, 2>>,
   <<0, 0, NotchSize, 0, NotchSize, NotchSize, 2, NotchSize, 2, 2, 0, 2>>,
   <<NotchSize, 2, 1, 0, 0, NotchSize, 1, 3, NotchSize, NotchSize>>,
   <<0, 3, 1, 1, 3, 0, NotchSize, NotchSize, 1, 2>>}

NotchHoles == [1..6 -> 1..(NotchSize - 1)]

\* the fixed cases of the test suite
Quad2D == <<10, 0, 0, 50, 60, 60, 70, 10>>

Quad3D == <<10, 0, 0, 0, 50, 0, 60, 60, 0, 70, 10, 0>>

InfiniteLoop == <<1, 2, 2, 2, 1, 2, 1, 1, 1, 2, 4, 1, 5, 1, 3, 2, 4, 2, 4, 1>>

\* further fixed cases: rings of six and more vertices, which reach the
\* later passes of earcutLinked, and rings with holes
LShape == <<0, 0, 2, 0, 2, 1, 1, 1, 1, 2, 0, 2>>

Collinear == <<0, 0, 1, 0, 2, 0, 2, 2, 0, 2>>

CureCase == <<0, 0, 0, 1, 1, 0, 0, 0, 2, 1, 1, 2>>

SplitCase == <<0, 0, 0, 1, 1, 1, 0, 2, 2, 1, 1, 1>>

NoBridgeCase == <<2, 0, 2, 2, 0, 2, 0, 0>>

BridgeMoveCase == <<0, 0, 3, 0, 3, 3, 0, 3, 1, 3>>

HoleCureCase == <<0, 0, 3, 0, 0, 3, 0, 1, 1, 0, 1, 3>>

HoleSplitCase == <<0, 0, 3, 0, 0, 3, 1, 3, 2, 0, 3, 0>>

TwoHoles ==
  <<0, 0, 6, 0, 6, 6, 0, 6, 4, 4, 5, 4, 4, 5, 1, 1, 2, 1, 1, 2>>

\* a hole to the left of the outer ring, then a hole inside it
SkipCase ==
  <<2, 0, 5, 0, 5, 3, 2, 3, 0, 1, 1, 1, 0, 2, 3, 1, 4, 1, 3, 2>>

Lifted3D ==
  <<0, 0, 5, 3, 0, 7, 3, 3, 9, 0, 3, 4, 1, 1, 8, 2, 1, 6, 1, 2, 5>>

\* a hole of one vertex, which is a Steiner point: in line with a corner of
\* the outer ring and with its own copy once it is bridged
SteinerCase == <<3, 2, 2, 0, 4, 1, 1, 0, 3, 0>>

SteinerOnEdge == <<1, 0, 2, 1, 3, 0, 0, 0, 0, 2, 2, 0>>

\* rings that pass twice through a point: at two reflex corners, where
\* splitEarcut cuts the ring, and at two convex ones, where it does not
ZeroLengthCase == <<0, 2, 1, 2, 1, 1, 2, 0, 1, 1, 2, 1, 1, 0, 1, 1>>

ZeroLengthConvex == <<3, 1, 3, 3, 2, 2, 0, 2, 3, 1, 3, 3, 2, 2, 0, 2>>

Fixtures ==
  {[data |-> Quad2D, holeIndices |-> <<>>, dim |-> 2],
   [data |-> Quad3D, holeIndices |-> <<>>, dim |-> 3],
   [data |-> InfiniteLoop, holeIndices |-> <<5>>, dim |-> 2],
   [data |-> LShape, holeIndices |-> <<>>, dim |-> 2],
   [data |-> Collinear, holeIndices |-> <<>>, dim |-> 2],
   [data |-> CureCase, holeIndices |-> <<>>, dim |-> 2],
   [data |-> SplitCase, holeIndices |-> <<>>, dim |-> 2],
   [data |-> NoBridgeCase, holeIndices |-> <<3>>, dim |-> 2],
   [data |-> BridgeMoveCase, holeIndices |-> <<4>>, dim |-> 2],
   [data |-> HoleCureCase, holeIndices |-> <<3>>, dim |-> 2],
   [data |-> HoleSplitCase, holeIndices |-> <<3>>, dim |-> 2],
   [data |-> TwoHoles, holeIndices |-> <<4, 7>>, dim |-> 2],
   [data |-> SkipCase, holeIndices |-> <<4, 7>>, dim |-> 2],
   [data |-> Lifted3D, holeIndices |-> <<4>>, dim |-> 3],
   [data |-> SteinerCase, holeIndices |-> <<4>>, dim |-> 2],
   [data |-> SteinerOnEdge, holeIndices |-> <<5>>, dim |-> 2],
   [data |-> ZeroLengthCase, holeIndices |-> <<>>, dim |-> 2],
   [data |-> ZeroLengthConvex, holeIndices |-> <<>>, dim |-> 2]}

\* more than 80 vertices, for which earcut uses the z-order curve:
\* a square with six holes: a hole of three corners, two of them far above the
\* square, and five holes of 15 vertices each at a point left of the square,
\* to which no bridge is found
HashSquare == <<0, 0, 3, 0, 3, 3, 0, 3>>

HashSpike == <<1, 1, 2, 98304, 2, 98305>>

HashPad == [k \in 1..150 |-> IF k % 2 = 1 THEN -1 ELSE 0]

HashPadHoles == <<7, 22, 37, 52, 67>>

\* the five holes of 15 vertices each that follow an outer ring of n vertices
HashPadsAfter(n) == [j \in 1..5 |-> n + 15 * (j - 1)]

\* the second and third: rings that earcut splits, with the same five holes
HashFixtures ==
  {[data |-> HashSquare \o HashSpike \o HashPad, holeIndices |-> <<4>> \o HashPadHoles,
    dim |-> 2],
   [data |-> SplitCase \o HashPad, holeIndices |-> HashPadsAfter(Len(SplitCase) \div 2),
    dim |-> 2],
   [data |-> ZeroLengthConvex \o HashPad,
    holeIndices |-> HashPadsAfter(Len(ZeroLengthConvex) \div 2), dim |-> 2]}

St ==
  [data |-> data, holeIndices |-> holeIndices, dim |-> dim, nd |-> nd,
   triangles |-> triangles, outerNode |-> outerNode, queue |-> queue,
   stack |-> stack, pc |-> pc, minX |-> minX, minY |-> minY, invSize |-> invSize]

Set(s) ==
  /\ data' = s.data
  /\ holeIndices' = s.holeIndices
  /\ dim' = s.dim
  /\ nd' = s.nd
  /\ triangles' = s.triangles
  /\ outerNode' = s.outerNode
  /\ queue' = s.queue
  /\ stack' = s.stack
  /\ pc' = s.pc
  /\ minX' = s.minX
  /\ minY' = s.minY
  /\ invSize' = s.invSize
  /\ UNCHANGED <<vertices, indices, modulo, axis, slot,
                 polygon, offset, infinity, returned>>

\* a call of earcut(data, holeIndices, dim) is about to run: on a fixed case,
\* on any buffer of at most MaxPts vertices with any list of hole starts, on
\* any hole-free buffer of three coordinates a vertex, on a framed hole, or on
\* a hole in a concave ring
Idle ==
  /\ nd = <<>>
  /\ triangles = <<>>
  /\ outerNode = Null
  /\ queue = <<>>
  /\ stack = <<>>
  /\ pc = "earcut"
  /\ vertices = <<>>
  /\ indices = <<>>
  /\ modulo = 0
  /\ axis = 0
  /\ slot = 0
  /\ polygon = <<>>
  /\ offset = 0
  /\ infinity = FALSE
  /\ returned = <<>>
  /\ minX = 0
  /\ minY = 0
  /\ invSize = Zero

Init ==
  /\ \/ \E inp \in Fixtures \cup HashFixtures :
          /\ data = inp.data
          /\ holeIndices = inp.holeIndices
          /\ dim = inp.dim
     \/ \E n \in 0..MaxPts :
          /\ data \in Buffers(n, 2)
          /\ holeIndices \in HoleLists(n)
          /\ dim = 2
     \/ \E n \in 0..MaxPts :
          /\ data \in Buffers(n, 3)
          /\ holeIndices = <<>>
          /\ dim = 3
     \/ \E ring \in FrameRings, hole \in FrameHoles :
          /\ data = ring \o hole
          /\ holeIndices = <<4>>
          /\ dim = 2
     \/ \E ring \in NotchRings, hole \in NotchHoles :
          /\ data = ring \o hole
          /\ holeIndices = <<Len(ring) \div 2>>
          /\ dim = 2
  /\ Idle

Earcut == EarcutEn(St) /\ Set(EarcutDo(St))

EliminateHoles == EliminateHolesEn(St) /\ Set(EliminateHolesDo(St))

EliminateHole == EliminateHoleEn(St) /\ Set(EliminateHoleDo(St))

EarcutLinkedStart == EarcutLinkedStartEn(St) /\ Set(EarcutLinkedStartDo(St))

LoopExit == LoopExitEn(St) /\ Set(LoopExitDo(St))

CutEar == CutEarEn(St) /\ Set(CutEarDo(St))

NextEar == NextEarEn(St) /\ Set(NextEarDo(St))

FilterPass == FilterPassEn(St) /\ Set(FilterPassDo(St))

CurePass == CurePassEn(St) /\ Set(CurePassDo(St))

SplitPass == SplitPassEn(St) /\ Set(SplitPassDo(St))

SplitSecond == SplitSecondEn(St) /\ Set(SplitSecondDo(St))

Return == ReturnEn(St) /\ Set(ReturnDo(St))

Finish == FinishEn(St) /\ Set(FinishDo(St))

Next ==
  \/ Earcut
  \/ EliminateHoles
  \/ EliminateHole
  \/ EarcutLinkedStart
  \/ LoopExit
  \/ CutEar
  \/ NextEar
  \/ FilterPass
  \/ CurePass
  \/ SplitPass
  \/ SplitSecond
  \/ Return
  \/ Finish

Spec == Init /\ [][Next]_vars

(***************************************************************************)
(* tesselate() of index.ts.  The arrays vertices and indices grow by push; *)
(* a function that pushes returns the arrays it leaves behind.             *)
(***************************************************************************)
\* ((x % n) + n) % n
mod2(x, n) == FRem(FAdd(FRem(x, n), n), n)

\* the for loop of createVertex from coordinate i on
RECURSIVE createVertexLoop(_, _, _, _, _, _, _, _)
createVertexLoop(splitPoint, i1, i2, travelDivisor, vs, dm, ax, i) ==
  IF i >= dm
    THEN vs
    ELSE createVertexLoop(splitPoint, i1, i2, travelDivisor,
                          Append(vs, IF i # ax
                                       THEN FAdd(At(vs, i1 * dm + i),
                                                 FDiv(FSub(At(vs, i2 * dm + i),
                                                           At(vs, i1 * dm + i)),
                                                      travelDivisor))
                                       ELSE splitPoint),
                          dm, ax, i + 1)

\* createVertex counting numbers where it should count vertices
createVertexLength(splitPoint, i1, i2, v1, v2, vs, dm, ax) ==
  [index |-> Len(vs),
   vertices |-> createVertexLoop(splitPoint, i1, i2,
                                 FDiv(FSub(v2, v1), FSub(splitPoint, v1)),
                                 vs, dm, ax, 0)]

\* the vertex on the edge i1 -> i2 where the axis coordinate is splitPoint,
\* pushed: [index, vertices]
createVertex(splitPoint, i1, i2, v1, v2, vs, dm, ax) ==
  [index |-> Len(vs) \div dm,
   vertices |-> createVertexLoop(splitPoint, i1, i2,
                                 FDiv(FSub(v2, v1), FSub(splitPoint, v1)),
                                 vs, dm, ax, 0)]

\* The call splitIfNecessary makes of splitRight or splitLeft is a record c:
\* the corner i1 with its axis value v1, the two other vertices, the arrays,
\* dim, axis and modulo.  The locals of a split are a record w.
SplitCall(i1, i2, i3, v1, v2, v3, c) ==
  [c EXCEPT !.i1 = i1, !.i2 = i2, !.i3 = i3, !.v1 = v1, !.v2 = v2, !.v3 = v3]

\* let i12 = createVertex(..., i1, i2, ...); let i13 = createVertex(..., i1,
\* i3, ...); indices.push(i1, i12, i13)
splitFirstPushed(modPoint, c, a, b) ==
  [vertices |-> b.vertices,
   indices |-> c.indices \o <<c.i1, a.index, b.index>>,
   i12 |-> a.index,
   i13 |-> b.index,
   modPoint |-> modPoint]

splitFirst13(modPoint, c, a) ==
  splitFirstPushed(modPoint, c, a,
                   createVertex(modPoint, c.i1, c.i3, c.v1, c.v3, a.vertices, c.dim, c.axis))

\* the first cut with the corner i1 itself moved onto the grid line
splitFirstMoved(modPoint, c) ==
  splitFirst13(modPoint, c,
               createVertex(modPoint, c.i1, c.i2, c.v1, c.v2,
                            [c.vertices EXCEPT ![c.i1 * c.dim + c.axis + 1] = modPoint],
                            c.dim, c.axis))

splitFirst(modPoint, c) ==
  splitFirst13(modPoint, c,
               createVertex(modPoint, c.i1, c.i2, c.v1, c.v2, c.vertices, c.dim, c.axis))

\* the body of the while loops, before modPoint moves on
splitBodyPushed(w, a, b) ==
  [vertices |-> b.vertices,
   indices |-> w.indices \o <<w.i13, w.i12, a.index, a.index, w.i12, b.index>>,
   i12 |-> b.index,
   i13 |-> a.index,
   modPoint |-> w.modPoint]

splitBody12(w, c, a) ==
  splitBodyPushed(w, a,
                  createVertex(w.modPoint, c.i1, c.i2, c.v1, c.v2, a.vertices, c.dim, c.axis))

splitBody(w, c) ==
  splitBody12(w, c,
              createVertex(w.modPoint, c.i1, c.i3, c.v1, c.v3, w.vertices, c.dim, c.axis))

\* modPoint += modulo
MovedRight(w, c) == [w EXCEPT !.modPoint = FAdd(w.modPoint, c.modulo)]

\* modPoint -= modulo
MovedLeft(w, c) == [w EXCEPT !.modPoint = FSub(w.modPoint, c.modulo)]

\* indices.push(i13, i12, last); return triangle
splitReturn(w, last, triangle) ==
  [triangle |-> triangle,
   vertices |-> w.vertices,
   indices |-> w.indices \o <<w.i13, w.i12, last>>]

\* while (modPoint < limit)
RECURSIVE splitRightLoop(_, _, _)
splitRightLoop(w, c, limit) ==
  IF FLess(w.modPoint, limit)
    THEN splitRightLoop(MovedRight(splitBody(w, c), c), c, limit)
    ELSE w

splitReturn2(w, c) == splitReturn(w, c.i2, <<w.i13, c.i2, c.i3>>)

\* the returned triangle turned the other way
splitReturn3Turned(w, c) == splitReturn(w, c.i3, <<c.i3, c.i2, w.i12>>)

splitReturn3(w, c) == splitReturn(w, c.i3, <<c.i3, w.i12, c.i2>>)

\* i1 is the corner, the sweep goes from v1 up
splitRight(modPoint, c) ==
  IF FLess(c.v2, c.v3)
    THEN splitReturn2(splitRightLoop(MovedRight(splitFirst(modPoint, c), c), c, c.v2), c)
    ELSE splitReturn3(splitRightLoop(MovedRight(splitFirst(modPoint, c), c), c, c.v3), c)

\* while (modPoint > limit)
RECURSIVE splitLeftLoop(_, _, _)
splitLeftLoop(w, c, limit) ==
  IF FLess(limit, w.modPoint)
    THEN splitLeftLoop(MovedLeft(splitBody(w, c), c), c, limit)
    ELSE w

\* i1 is the corner, the sweep goes from v1 down
splitLeft(modPoint, c) ==
  IF FLess(c.v3, c.v2)
    THEN splitReturn2(splitLeftLoop(MovedLeft(splitFirst(modPoint, c), c), c, c.v2), c)
    ELSE splitReturn3(splitLeftLoop(MovedLeft(splitFirst(modPoint, c), c), c, c.v3), c)

\* const modPoint = v + modulo - mod2(v, modulo)
modPointAbove(v, m) == FSub(FAdd(v, m), mod2(v, m))

\* let mod = mod2(v, modulo); if (mod === 0) mod = modulo; modPoint = v - mod
modPointBelowBy(v, m, mod) == FSub(v, IF mod = Zero THEN m ELSE mod)

modPointBelow(v, m) == modPointBelowBy(v, m, mod2(v, m))

\* modPoint > v && modPoint <= va && modPoint <= vb && (p !== modPoint || q !== modPoint)
splitsAbove(modPoint, v, va, vb, p, q) ==
  /\ FLess(v, modPoint)
  /\ FLeq(modPoint, va)
  /\ FLeq(modPoint, vb)
  /\ (p # modPoint \/ q # modPoint)

\* modPoint < v && modPoint >= va && modPoint >= vb && (p !== modPoint || q !== modPoint)
splitsBelow(modPoint, v, va, vb, p, q) ==
  /\ FLess(modPoint, v)
  /\ FLeq(va, modPoint)
  /\ FLeq(vb, modPoint)
  /\ (p # modPoint \/ q # modPoint)

\* splitIfNecessary returns undefined
NoSplit(c) == [triangle |-> <<>>, vertices |-> c.vertices, indices |-> c.indices]

\* 3 is corner
corner3Above(modPoint, c) ==
  IF splitsAbove(modPoint, c.v3, c.v1, c.v2, c.v1, c.v2)
    THEN splitRight(modPoint, SplitCall(c.i3, c.i1, c.i2, c.v3, c.v1, c.v2, c))
    ELSE NoSplit(c)

corner3Below(modPoint, c) ==
  IF splitsBelow(modPoint, c.v3, c.v1, c.v2, c.v1, c.v2)
    THEN splitLeft(modPoint, SplitCall(c.i3, c.i1, c.i2, c.v3, c.v1, c.v2, c))
    ELSE NoSplit(c)

corner3(c) ==
  IF FLess(c.v3, c.v1) /\ FLess(c.v3, c.v2)
    THEN corner3Above(modPointAbove(c.v3, c.modulo), c)
    ELSE IF FLess(c.v1, c.v3) /\ FLess(c.v2, c.v3)
           THEN corner3Below(modPointBelow(c.v3, c.modulo), c)
           ELSE NoSplit(c)

\* 2 is corner
corner2Above(modPoint, c) ==
  IF splitsAbove(modPoint, c.v2, c.v3, c.v1, c.v1, c.v3)
    THEN splitRight(modPoint, SplitCall(c.i2, c.i3, c.i1, c.v2, c.v3, c.v1, c))
    ELSE corner3(c)

corner2Below(modPoint, c) ==
  IF splitsBelow(modPoint, c.v2, c.v3, c.v1, c.v1, c.v3)
    THEN splitLeft(modPoint, SplitCall(c.i2, c.i3, c.i1, c.v2, c.v3, c.v1, c))
    ELSE corner3(c)

corner2(c) ==
  IF FLess(c.v2, c.v1) /\ FLess(c.v2, c.v3)
    THEN corner2Above(modPointAbove(c.v2, c.modulo), c)
    ELSE IF FLess(c.v1, c.v2) /\ FLess(c.v3, c.v2)
           THEN corner2Below(modPointBelow(c.v2, c.modulo), c)
           ELSE corner3(c)

\* 1 is corner; the last test reads v2 twice
corner1Above(modPoint, c) ==
  IF splitsAbove(modPoint, c.v1, c.v2, c.v3, c.v2, c.v2)
    THEN splitRight(modPoint, c)
    ELSE corner2(c)

corner1Below(modPoint, c) ==
  IF splitsBelow(modPoint, c.v1, c.v2, c.v3, c.v2, c.v2)
    THEN splitLeft(modPoint, c)
    ELSE corner2(c)

corner1(c) ==
  IF FLess(c.v1, c.v2) /\ FLess(c.v1, c.v3)
    THEN corner1Above(modPointAbove(c.v1, c.modulo), c)
    ELSE IF FLess(c.v2, c.v1) /\ FLess(c.v3, c.v1)
           THEN corner1Below(modPointBelow(c.v1, c.modulo), c)
           ELSE corner2(c)

\* find a number "x" that is x % modulo === 0 and between v1 and v2:
\* [triangle, vertices, indices], triangle = <<>> for undefined
splitIfNecessary(i1, i2, i3, vs, ix, dm, ax, m) ==
  corner1([i1 |-> i1, i2 |-> i2, i3 |-> i3,
           v1 |-> At(vs, i1 * dm + ax),
           v2 |-> At(vs, i2 * dm + ax),
           v3 |-> At(vs, i3 * dm + ax),
           vertices |-> vs, indices |-> ix, dim |-> dm, axis |-> ax, modulo |-> m])

(***************************************************************************)
(* earclip(polygon, modulo) and tesselate(vertices, indices, modulo, dim)  *)
(* as a second state machine.  data is the flattened polygon as earcut     *)
(* reads it, vertices the same buffer as the doubles tesselate computes    *)
(* with and appends to; indices is the list earcut returned, which         *)
(* tesselate rewrites and appends to; axis and slot are the two loop       *)
(* counters of tesselate (slot is i).                                      *)
(***************************************************************************)
MaxModulo == 2
MaxNeg == 1
MaxPos == 2

Doubles(d) == [k \in 1..Len(d) |-> FromInt(d[k])]

\* the corners of the rings given to earclip
TessPoints == {<<x, y>> : x \in (-MaxNeg)..MaxPos, y \in {-MaxNeg, 0, MaxNeg}}

\* polygons with holes, with collinear vertices, with three coordinates
EarclipFixtures ==
  {inp \in Fixtures : inp.data \notin {Quad2D, Quad3D}}

\* calls of tesselate on a list of triangles that earcut did not make: two
\* triangles on a shared edge, a triangle in space, a triangle of two vertices,
\* a triangle turned the other way, no triangle
TessFixtures ==
  {[data |-> <<0, 0, 3, 0, 3, 3, 0, 3>>, indices |-> <<0, 1, 2, 2, 3, 0>>, dim |-> 2],
   [data |-> <<0, 0, 0, 2, 0, 3, 0, 2, -1>>, indices |-> <<0, 1, 2>>, dim |-> 3],
   [data |-> <<-1, -1, 2, 2>>, indices |-> <<0, 0, 1>>, dim |-> 2],
   [data |-> <<0, 1, -1, 1, 2, -1>>, indices |-> <<0, 1, 2>>, dim |-> 2],
   [data |-> <<0, 0, 1, 0, 0, 1>>, indices |-> <<>>, dim |-> 2]}

(***************************************************************************)
(* flatten() of index.ts: the rings of points laid out in one buffer, the  *)
(* position of the first point of every ring after the first, and the      *)
(* number of coordinates of the first point of the first ring.  Ring i of  *)
(* the code is rings[i + 1] here.                                          *)
(***************************************************************************)
\* for (let d = 0; d < dim; d++) vertices.push(data[i][j][d])
RECURSIVE flattenRing(_, _, _)
flattenRing(ring, dm, j) ==
  IF j > Len(ring)
    THEN <<>>
    ELSE SubSeq(ring[j], 1, dm) \o flattenRing(ring, dm, j + 1)

RECURSIVE flattenLoop(_, _, _, _, _, _)
flattenLoop(rings, dm, i, holeIndex, vs, holes) ==
  IF i > Len(rings)
    THEN [threw |-> FALSE, vertices |-> vs, holeIndices |-> holes, dim |-> dm]
    ELSE IF i > 1
      THEN flattenLoop(rings, dm, i + 1, holeIndex + Len(rings[i - 1]),
                       vs \o flattenRing(rings[i], dm, 1),
                       Append(holes, holeIndex + Len(rings[i - 1])))
      ELSE flattenLoop(rings, dm, i + 1, holeIndex,
                       vs \o flattenRing(rings[i], dm, 1), holes)

\* const dim = data[0][0].length reads a property of undefined when there is
\* no ring or no point in the first ring
flatten(rings) ==
  IF rings = <<>> \/ rings[1] = <<>>
    THEN [threw |-> TRUE, vertices |-> <<>>, holeIndices |-> <<>>, dim |-> 0]
    ELSE flattenLoop(rings, Len(rings[1][1]), 1, 0, <<>>, <<>>)

\* the rings of points that a buffer with its hole starts stands for
PointsOf(d, dm, lo, hi) ==
  [j \in 1..(hi - lo) |-> SubSeq(d, (lo + j - 1) * dm + 1, (lo + j) * dm)]

RingsOf(d, holes, dm) ==
  [k \in 1..(Len(holes) + 1) |->
     PointsOf(d, dm, IF k = 1 THEN 0 ELSE holes[k - 1],
                     IF k <= Len(holes) THEN holes[k] ELSE Len(d) \div dm)]

\* the most rings and the most points of a ring given to flatten, the
\* largest offset given to earclip
MaxRings == 2
MaxRingLen == 2
MaxOffset == 1

\* rings of the given sizes whose coordinates are numbered in reading order
RECURSIVE Numbered(_, _, _, _)
Numbered(sizes, dm, k, from) ==
  IF k > Len(sizes)
    THEN <<>>
    ELSE <<[j \in 1..sizes[k] |->
              [c \in 1..dm |-> from + (j - 1) * dm + c - 1]]>>
         \o Numbered(sizes, dm, k + 1, from + sizes[k] * dm)

Shapes ==
  UNION {[1..n -> 0..MaxRingLen] : n \in 0..MaxRings}

\* the frame of a running call of earclip
EarclipFrame == [fn |-> "earclip"]

Called(m) ==
  /\ modulo = m
  /\ nd = <<>>
  /\ triangles = <<>>
  /\ outerNode = Null
  /\ queue = <<>>
  /\ axis = 0
  /\ slot = 0
  /\ returned = <<>>
  /\ minX = 0
  /\ minY = 0
  /\ invSize = Zero

\* earclip(polygon, modulo, offset) is about to run
EarclipCalled(rings, m, inf, off) ==
  /\ polygon = rings
  /\ offset = off
  /\ infinity = inf
  /\ data = <<>>
  /\ holeIndices = <<>>
  /\ dim = 0
  /\ vertices = <<>>
  /\ indices = <<>>
  /\ stack = <<EarclipFrame>>
  /\ pc = "earclip"
  /\ Called(m)

\* tesselate(vertices, indices, modulo, dim) is about to run
TesselateCalled(d, ind, m, dm) ==
  /\ polygon = <<>>
  /\ offset = 0
  /\ infinity = FALSE
  /\ data = d
  /\ holeIndices = <<>>
  /\ dim = dm
  /\ vertices = Doubles(d)
  /\ indices = ind
  /\ stack = <<>>
  /\ pc = "tesselate"
  /\ Called(m)

\* the calls with the given values of modulo: earclip on the fixed polygons
\* with every offset and with modulo left at Infinity, earclip on every ring
\* of three corners, earclip on rings of every small shape, tesselate alone
CallsWith(moduli) ==
  \/ \E inp \in EarclipFixtures, m \in moduli, off \in 0..MaxOffset :
       EarclipCalled(RingsOf(inp.data, inp.holeIndices, inp.dim), m, FALSE, off)
  \/ \E inp \in EarclipFixtures, off \in 0..MaxOffset :
       EarclipCalled(RingsOf(inp.data, inp.holeIndices, inp.dim), 0, TRUE, off)
  \/ \E p \in TessPoints, q \in TessPoints, r \in TessPoints, m \in moduli :
       EarclipCalled(<<<<p, q, r>>>>, m, FALSE, 0)
  \/ \E sizes \in Shapes, dm \in 2..3, m \in moduli :
       EarclipCalled(Numbered(sizes, dm, 1, 0), m, FALSE, 0)
  \/ \E inp \in TessFixtures, m \in moduli :
       TesselateCalled(inp.data, inp.indices, m, inp.dim)

EarclipInit == CallsWith(1..MaxModulo)

\* const [vertices, holeIndices, dim] = flatten(polygon), then
\* const indices = earcut(vertices, holeIndices, dim), then tesselate is
\* called unless modulo is Infinity
Earclip ==
  /\ pc = "earclip"
  /\ \E f \in {flatten(polygon)} :
       IF f.threw
         THEN /\ pc' = "threw"
              /\ UNCHANGED <<data, holeIndices, dim, vertices, triangles, indices>>
         ELSE /\ data' = f.vertices
              /\ holeIndices' = f.holeIndices
              /\ dim' = f.dim
              /\ vertices' = Doubles(f.vertices)
              /\ \E r \in {Run(Entry(f.vertices, f.holeIndices, f.dim))} :
                   IF r.pc = "threw"
                     THEN /\ pc' = "threw"
                          /\ UNCHANGED <<triangles, indices>>
                     ELSE /\ pc' = IF infinity THEN "skipped" ELSE "tesselate"
                          /\ triangles' = r.triangles
                          /\ indices' = r.triangles
  /\ UNCHANGED <<nd, outerNode, queue, stack, modulo, axis, slot,
                 polygon, offset, infinity, returned, minX, minY, invSize>>

\* the body of the inner loop: a split leaves the remaining triangle in the
\* slot and the slot is looked at again (i -= 3, then i += 3)
Tesselate ==
  /\ pc = "tesselate"
  /\ axis < dim
  /\ slot < Len(indices)
  /\ \E r \in {splitIfNecessary(At(indices, slot), At(indices, slot + 1),
                                At(indices, slot + 2), vertices, indices,
                                dim, axis, FromInt(modulo))} :
       IF r.triangle = <<>>
         THEN /\ slot' = slot + 3
              /\ UNCHANGED <<vertices, indices>>
         ELSE /\ slot' = slot
              /\ vertices' = r.vertices
              /\ indices' = [r.indices EXCEPT ![slot + 1] = r.triangle[1],
                                              ![slot + 2] = r.triangle[2],
                                              ![slot + 3] = r.triangle[3]]
  /\ UNCHANGED <<data, holeIndices, dim, nd, triangles, outerNode, queue, stack,
                 pc, modulo, axis, polygon, offset, infinity, returned,
                 minX, minY, invSize>>

\* the inner loop is over: axis++
NextAxis ==
  /\ pc = "tesselate"
  /\ axis < dim
  /\ slot >= Len(indices)
  /\ axis' = axis + 1
  /\ slot' = 0
  /\ UNCHANGED <<data, holeIndices, dim, nd, triangles, outerNode, queue, stack,
                 pc, vertices, indices, modulo, polygon, offset, infinity,
                 returned, minX, minY, invSize>>

\* the outer loop is over: tesselate returns
TesselateReturn ==
  /\ pc = "tesselate"
  /\ axis >= dim
  /\ pc' = "tesselated"
  /\ UNCHANGED <<data, holeIndices, dim, nd, triangles, outerNode, queue, stack,
                 vertices, indices, modulo, axis, slot, polygon, offset,
                 infinity, returned, minX, minY, invSize>>

\* the same return with the indices as they are
EarclipReturnAsIs ==
  /\ pc \in {"tesselated", "skipped"}
  /\ stack = <<EarclipFrame>>
  /\ returned' = indices
  /\ stack' = <<>>
  /\ pc' = "returned"
  /\ UNCHANGED <<data, holeIndices, dim, nd, triangles, outerNode, queue,
                 vertices, indices, modulo, axis, slot, polygon, offset,
                 infinity, minX, minY, invSize>>

\* return { vertices, indices: indices.map(index => index + offset) }
EarclipReturn ==
  /\ pc \in {"tesselated", "skipped"}
  /\ stack = <<EarclipFrame>>
  /\ returned' = [k \in 1..Len(indices) |-> indices[k] + offset]
  /\ stack' = <<>>
  /\ pc' = "returned"
  /\ UNCHANGED <<data, holeIndices, dim, nd, triangles, outerNode, queue,
                 vertices, indices, modulo, axis, slot, polygon, offset,
                 infinity, minX, minY, invSize>>

EarclipNext ==
  \/ Earclip
  \/ Tesselate
  \/ NextAxis
  \/ TesselateReturn
  \/ EarclipReturn

EarclipSpec == EarclipInit /\ [][EarclipNext]_vars

\* the same calls with a modulo that is zero or negative
NonPositiveInit == CallsWith((-MaxModulo)..0)

NonPositiveSpec == NonPositiveInit /\ [][EarclipNext]_vars

(***************************************************************************)
(* deviation() of index.ts: the relative difference between the area of    *)
(* the triangles and the area of the polygon, as the fraction n / d; d = 0 *)
(* stands for Infinity.                                                    *)
(***************************************************************************)
RECURSIVE holesArea(_, _, _, _)
holesArea(d, holes, dm, i) ==
  IF i > Len(holes)
    THEN 0
    ELSE Abs(signedArea(d, holes[i] * dm,
                        IF i < Len(holes) THEN holes[i + 1] * dm ELSE Len(d), dm))
         + holesArea(d, holes, dm, i + 1)

polygonArea(d, holes, dm) ==
  Abs(signedArea(d, 0, IF Len(holes) > 0 THEN holes[1] * dm ELSE Len(d), dm))
  - holesArea(d, holes, dm, 1)

RECURSIVE trianglesArea(_, _, _, _)
trianglesArea(d, dm, tris, i) ==
  IF i >= Len(tris)
    THEN 0
    ELSE Abs((At(d, At(tris, i) * dm) - At(d, At(tris, i + 2) * dm))
             * (At(d, At(tris, i + 1) * dm + 1) - At(d, At(tris, i) * dm + 1))
             - (At(d, At(tris, i) * dm) - At(d, At(tris, i + 1) * dm))
               * (At(d, At(tris, i + 2) * dm + 1) - At(d, At(tris, i) * dm + 1)))
         + trianglesArea(d, dm, tris, i + 3)

deviationOf(pa, ta) ==
  IF pa = 0 /\ ta = 0 THEN [n |-> 0, d |-> 1] ELSE [n |-> Abs(ta - pa), d |-> Abs(pa)]

deviation(d, holes, dm, tris) ==
  deviationOf(polygonArea(d, holes, dm), trianglesArea(d, dm, tris, 0))

(***************************************************************************)
(* Vocabulary of the properties: the rings of the input as ranges lo..hi-1 *)
(* of vertex numbers, and what it means for them to be simple.             *)
(***************************************************************************)
NumPts == Len(data) \div dim

X(i) == At(data, i * dim)

Y(i) == At(data, i * dim + 1)

\* ring 0 is the outer ring, ring k the k-th hole
RingLo(k) == IF k = 0 THEN 0 ELSE holeIndices[k]

RingHi(k) == IF k < Len(holeIndices) THEN holeIndices[k + 1] ELSE NumPts

After(lo, hi, i) == IF i + 1 = hi THEN lo ELSE i + 1

Orient(i, j, k) == (X(j) - X(i)) * (Y(k) - Y(i)) - (Y(j) - Y(i)) * (X(k) - X(i))

\* vertex k lies on the closed segment from i to j
OnSeg(i, j, k) ==
  /\ Orient(i, j, k) = 0
  /\ Min2(X(i), X(j)) <= X(k)
  /\ X(k) <= Max2(X(i), X(j))
  /\ Min2(Y(i), Y(j)) <= Y(k)
  /\ Y(k) <= Max2(Y(i), Y(j))

\* the closed segments a-b and c-d have a point in common
SegsMeet(a, b, c, d) ==
  \/ /\ sign(Orient(a, b, c)) # sign(Orient(a, b, d))
     /\ sign(Orient(c, d, a)) # sign(Orient(c, d, b))
  \/ OnSeg(a, b, c)
  \/ OnSeg(a, b, d)
  \/ OnSeg(c, d, a)
  \/ OnSeg(c, d, b)

\* the edges p-q and q-r, which share q, run back over each other
FoldsBack(p, q, r) ==
  /\ Orient(p, q, r) = 0
  /\ (X(p) - X(q)) * (X(r) - X(q)) + (Y(p) - Y(q)) * (Y(r) - Y(q)) > 0

\* the ring is a simple polygon: three or more distinct vertices, edges that
\* meet only at the vertex two consecutive ones share
SimpleRing(lo, hi) ==
  /\ hi - lo >= 3
  /\ \A i, j \in lo..(hi - 1) : i < j => (X(i) # X(j) \/ Y(i) # Y(j))
  /\ \A i \in lo..(hi - 1) : ~FoldsBack(i, After(lo, hi, i), After(lo, hi, After(lo, hi, i)))
  /\ \A i, j \in lo..(hi - 1) :
       (i < j /\ After(lo, hi, i) # j /\ After(lo, hi, j) # i)
         => ~SegsMeet(i, After(lo, hi, i), j, After(lo, hi, j))

\* the edge from i to j crosses the horizontal ray from p to the right
RayCrosses(p, i, j) ==
  /\ (Y(i) > Y(p)) # (Y(j) > Y(p))
  /\ IF Y(j) > Y(i)
       THEN (X(p) - X(i)) * (Y(j) - Y(i)) < (Y(p) - Y(i)) * (X(j) - X(i))
       ELSE (X(p) - X(i)) * (Y(j) - Y(i)) > (Y(p) - Y(i)) * (X(j) - X(i))

\* vertex p lies in the interior of the ring, off its boundary
StrictlyInside(p, lo, hi) ==
  /\ \A i \in lo..(hi - 1) : ~OnSeg(i, After(lo, hi, i), p)
  /\ Cardinality({i \in lo..(hi - 1) : RayCrosses(p, i, After(lo, hi, i))}) % 2 = 1

\* the rings a and b have no point of their boundaries in common
RingsApart(alo, ahi, blo, bhi) ==
  \A i \in alo..(ahi - 1), j \in blo..(bhi - 1) :
    ~SegsMeet(i, After(alo, ahi, i), j, After(blo, bhi, j))

\* a simple outer ring with simple holes that lie inside it, apart from the
\* outer ring and from each other, none inside another
SimplePolygon ==
  /\ \A k \in 1..Len(holeIndices) : RingLo(k) < RingHi(k) /\ RingLo(k - 1) < RingLo(k)
  /\ \A k \in 0..Len(holeIndices) : SimpleRing(RingLo(k), RingHi(k))
  /\ \A k \in 1..Len(holeIndices) :
       /\ RingsApart(RingLo(k), RingHi(k), RingLo(0), RingHi(0))
       /\ StrictlyInside(RingLo(k), RingLo(0), RingHi(0))
  /\ \A k, l \in 1..Len(holeIndices) :
       k # l => /\ RingsApart(RingLo(k), RingHi(k), RingLo(l), RingHi(l))
                /\ ~StrictlyInside(RingLo(k), RingLo(l), RingHi(l))

\* the nodes of the outer ring once linkedList has dropped a last vertex that
\* repeats the first
OuterNodesLeft ==
  IF RingHi(0) >= 2 /\ X(0) = X(RingHi(0) - 1) /\ Y(0) = Y(RingHi(0) - 1)
    THEN RingHi(0) - 1
    ELSE RingHi(0)

\* the buffer of two coordinates a vertex left when every third is dropped
Project2(d) ==
  [i \in 1..(2 * (Len(d) \div 3)) |-> d[3 * ((i - 1) \div 2) + ((i - 1) % 2) + 1]]

SameResult(r) == r.pc = pc /\ r.triangles = triangles

\* every entry of ix is the index of one of n vertices
ValidIndices(ix, n) == \A k \in 1..Len(ix) : 0 <= ix[k] /\ ix[k] < n

\* the largest integer that is at most the double x, for x below 2^30 in size
FloorOfSize(neg, whole, fraction) ==
  IF neg THEN (IF fraction THEN -whole - 1 ELSE -whole) ELSE whole

Floor(x) ==
  IF x = Zero
    THEN 0
    ELSE FloorOfSize(x.neg, WShr(Significand(x), -x.e)[2], WLow(Significand(x), -x.e))

FMin(a, b) == IF FLess(b, a) THEN b ELSE a

FMax(a, b) == IF FLess(a, b) THEN b ELSE a

\* the coordinate on axis ax of corner k (0, 1, 2) of the triangle in slot t
Corner(t, k, ax) == At(vertices, At(indices, 3 * t + k) * dim + ax)

\* the smallest multiple of m that is greater than the double lo
NextMultiple(lo, m) == m * ((Floor(lo) \div m) + 1)

\* a multiple of modulo lies strictly between the smallest and the largest
\* coordinate of triangle t on axis ax
Straddles(t, ax) ==
  FLess(FromInt(NextMultiple(FMin(Corner(t, 0, ax), FMin(Corner(t, 1, ax), Corner(t, 2, ax))),
                             modulo)),
        FMax(Corner(t, 0, ax), FMax(Corner(t, 1, ax), Corner(t, 2, ax))))

(***************************************************************************)
(* A measure of the work a state has left, for termination.                *)
(***************************************************************************)
RECURSIVE ringLenLoop(_, _, _, _)
ringLenLoop(ar, p, start, k) ==
  IF ar[p].next = start \/ k < 0 THEN k ELSE ringLenLoop(ar, ar[p].next, start, k + 1)

\* the number of nodes of the ring through start
RingLen(ar, start) == ringLenLoop(ar, start, start, 1)

\* the number of steps along next from p to stop, a full lap when p = stop
DistTo(ar, p, stop) == ringLenLoop(ar, p, stop, 1)

\* a ring of n nodes that earcutLinked is working on in the given pass: a cut
\* leaves a ring of n - 1 nodes, a later pass or a split leaves rings whose
\* measures add up to less
Quad(n) == 16 * Max2(n - 2, 0) * Max2(n - 2, 0)

RingRank(n, pass) == Quad(n) + (2 - pass) * (n + 2)

\* a ring of n nodes on which earcutLinked is yet to be called
FreshRank(n) == RingRank(n, 0) + n

FrameRank(ar, f) ==
  IF f.fn = "splitEarcut"
    THEN IF f.at = "first" THEN 2 + FreshRank(RingLen(ar, f.ear)) ELSE 1
    ELSE IF f.at = "called"
           THEN 1
           ELSE RingRank(RingLen(ar, f.ear), f.pass)
                + (IF f.at = "loop" THEN DistTo(ar, f.ear, f.stop) ELSE 0)

RECURSIVE StackRank(_, _, _)
StackRank(ar, stk, k) ==
  IF k > Len(stk) THEN 0 ELSE FrameRank(ar, stk[k]) + StackRank(ar, stk, k + 1)

\* a bridge adds two nodes to the outer ring
MostNodes(s) == Len(s.data) \div s.dim + 2 * Len(s.holeIndices)

Rank(s) ==
  CASE s.pc = "earcut" -> FreshRank(MostNodes(s)) + Len(s.holeIndices) + 4
    [] s.pc = "eliminateHoles" -> FreshRank(MostNodes(s)) + Len(s.holeIndices) + 3
    [] s.pc = "eliminateHole" -> FreshRank(MostNodes(s)) + Len(s.queue) + 2
    [] s.pc = "bbox" -> FreshRank(MostNodes(s)) + 2
    [] s.pc = "earcutLinked" -> 1 + StackRank(s.nd, s.stack, 1)
    [] OTHER -> 0

\* one of the steps can be taken
CanStep(s) ==
  \/ EarcutEn(s)
  \/ EliminateHolesEn(s)
  \/ EliminateHoleEn(s)
  \/ EarcutLinkedStartEn(s)
  \/ LoopExitEn(s)
  \/ CutEarEn(s)
  \/ NextEarEn(s)
  \/ FilterPassEn(s)
  \/ CurePassEn(s)
  \/ SplitPassEn(s)
  \/ SplitSecondEn(s)
  \/ ReturnEn(s)
  \/ FinishEn(s)

(***************************************************************************)
(* Rings of the arena as the properties speak of them.                     *)
(***************************************************************************)
\* the shoelace sum of signedArea taken along next once round the ring
RECURSIVE ringAreaLoop(_, _, _, _)
ringAreaLoop(ar, p, start, sum) ==
  IF ar[p].next = start \/ sum \notin Int
    THEN sum + (ar[p].x - ar[start].x) * (ar[start].y + ar[p].y)
    ELSE ringAreaLoop(ar, ar[p].next, start,
                      sum + (ar[p].x - ar[ar[p].next].x) * (ar[ar[p].next].y + ar[p].y))

RingArea(ar, start) == ringAreaLoop(ar, start, start, 0)

\* the hole whose range of vertices holds vertex i
HoleOf(i) == CHOOSE k \in 1..Len(holeIndices) : RingLo(k) <= i /\ i < RingHi(k)

\* the shoelace sum of ring k as the buffer lists it
InputArea(k) == signedArea(data, RingLo(k) * dim, RingHi(k) * dim, dim)

\* the rings are built and none is spliced into another yet
RingsBuilt == pc = "eliminateHole" /\ Len(queue) = Len(holeIndices)

(***************************************************************************)
(* The properties.                                                         *)
(***************************************************************************)

\* C1: every call of earcut terminates.  Until earcut has returned or thrown
\* a step can be taken, and every step lowers Rank, a natural number, so no
\* behaviour goes on for ever: the recursion earcutLinked pass 0 -> pass 1 ->
\* pass 2 -> splitEarcut -> pass 0 on each half comes to an end.
C1_Terminates ==
  /\ [](Terminal(St) \/ CanStep(St))
  /\ [][Rank(St') < Rank(St) /\ Rank(St') >= 0]_vars

\* C1, its case: earcut has returned from a ring that went through pass 0,
\* pass 1, pass 2 and splitEarcut, which triangulated both halves.
C1_Witness ==
  /\ pc = "done"
  /\ data = SplitCase
  /\ triangles = <<1, 0, 2, 4, 3, 5>>

\* C2: earcut never raises an error, whatever the rings and the hole starts,
\* a hole ring of no vertex included.
C2_NeverRaises == pc # "threw"

\* C3: every index of the list triangulate returned is the index of a vertex of
\* the buffer it was given, and every index of the list that tesselate works on
\* is the index of a vertex of the buffer as it stands, at every turn of its
\* loops and so when it has returned: 0 <= index < vertices.length / dim.
C3_IndexValidity ==
  pc \in {"tesselate", "tesselated"} =>
    /\ ValidIndices(triangles, Len(data) \div dim)
    /\ ValidIndices(indices, Len(vertices) \div dim)

\* C3, its case: earclip has triangulated the triangle (0,1), (-1,1), (2,-1) and
\* cut it along the grid of modulo 1; the list names vertices that tesselate made.
C3_Witness ==
  /\ pc = "tesselated"
  /\ data = <<0, 1, -1, 1, 2, -1>>
  /\ modulo = 1
  /\ triangles = <<1, 2, 0>>
  /\ indices = <<3, 5, 0, 1, 3, 4, 4, 3, 0, 2, 5, 6, 6, 5, 3>>
  /\ Len(vertices) \div dim = 7

\* C4: for a simple polygon without holes, given as n vertices, earcut returns
\* exactly n - 2 triangles, a list of 3 * (n - 2) indices.
C4_TriangleCount ==
  (pc = "done" /\ holeIndices = <<>> /\ SimpleRing(0, NumPts))
    => Len(triangles) = 3 * (NumPts - 2)

\* C4, its case: earcut has returned the three triangles of a simple ring of
\* five vertices, one of them on the line through its neighbours.
C4_Witness ==
  /\ pc = "done"
  /\ data = Collinear
  /\ SimpleRing(0, NumPts)
  /\ Len(triangles) = 9

\* C5: for a simple polygon, with or without holes that lie inside it, the
\* areas of the triangles earcut returns sum to the area of the outer ring
\* less the areas of the holes: deviation() of the result is 0.
C5_DeviationZero ==
  (pc = "done" /\ SimplePolygon)
    => deviation(data, holeIndices, dim, triangles).n = 0

\* C5, its case: earcut has returned from a simple square with two triangular
\* holes, with triangles that cover the square less the holes.
C5_Witness ==
  /\ pc = "done"
  /\ data = TwoHoles
  /\ SimplePolygon
  /\ Len(triangles) > 0
  /\ deviation(data, holeIndices, dim, triangles) = [n |-> 0, d |-> 70]

\* C6: after tesselate has returned, no triangle of the list has a multiple of
\* modulo strictly between its smallest and its largest coordinate on any axis.
C6_NoStraddle ==
  pc = "tesselated" =>
    \A t \in 0..(Len(indices) \div 3 - 1), ax \in 0..(dim - 1) : ~Straddles(t, ax)

\* C7: tesselate changes no entry of the vertex buffer it was given: the buffer
\* it leaves starts with the buffer it was given, and its length is a multiple of
\* dim.
C7_AppendOnly ==
  pc \in {"tesselate", "tesselated"} =>
    /\ Len(vertices) >= Len(data)
    /\ SubSeq(vertices, 1, Len(data)) = Doubles(data)
    /\ Len(vertices) % dim = 0

\* C7, its case: tesselate has cut a triangle in space on all three axes and
\* has returned with a longer buffer.
C7_Witness ==
  /\ pc = "tesselated"
  /\ dim = 3
  /\ data = <<0, 0, 0, 2, 0, 3, 0, 2, -1>>
  /\ modulo = 1
  /\ Len(vertices) > Len(data)
  /\ Len(indices) > 3

\* C8: when the buffer is empty, and whenever fewer than three nodes of the
\* outer ring are left once a last vertex that repeats the first is dropped,
\* earcut returns, without an error, a list of no index.
C8_EmptyResult ==
  (OuterNodesLeft < 3 /\ pc # "earcut") => (pc = "done" /\ triangles = <<>>)

\* C8, its case: earcut has returned from a ring of three vertices whose last
\* repeats its first, followed by a hole start.
C8_Witness ==
  /\ pc = "done"
  /\ NumPts = 3
  /\ holeIndices = <<3>>
  /\ OuterNodesLeft = 2
  /\ triangles = <<>>

\* C9: earcut reads the first two coordinates of a vertex only: on a buffer of
\* three coordinates a vertex it ends as on the buffer left when every third
\* coordinate is dropped; and the quad of the test suite gives 1,0,3,3,2,1 both
\* with two and with three coordinates a vertex.
C9_OnlyXY ==
  /\ (pc \in {"done", "threw"} /\ dim = 3)
       => SameResult(Run(Entry(Project2(data), holeIndices, 2)))
  /\ (pc = "done" /\ data \in {Quad2D, Quad3D}) => triangles = <<1, 0, 3, 3, 2, 1>>

\* C9, its case: earcut has returned triangles from a ring with a hole whose
\* vertices carry third coordinates that differ from one another.
C9_Witness ==
  /\ pc = "done"
  /\ dim = 3
  /\ data = Lifted3D
  /\ Len(triangles) > 0

\* C10: on the ring of five vertices with a hole of five vertices of the
\* test "infinite-loop", earcut ends by returning exactly 8,5,6.
C10_InfiniteLoop ==
  (data = InfiniteLoop /\ holeIndices = <<5>> /\ dim = 2 /\ pc \in {"done", "threw"})
    => (pc = "done" /\ triangles = <<8, 5, 6>>)

\* C10, its case: earcut has returned from that input.
C10_Witness ==
  /\ data = InfiniteLoop
  /\ holeIndices = <<5>>
  /\ pc = "done"
  /\ Len(triangles) = 3

\* C11: the ring built for the outer boundary runs the same way round whichever
\* way the buffer lists it: along next its shoelace sum is the size of the
\* buffer's sum, never negative; and every hole ring runs the other way round,
\* its sum is minus the size of the buffer's sum, whichever way the hole is
\* listed.
C11_Winding ==
  /\ (pc = "eliminateHoles" \/ RingsBuilt \/ (pc = "bbox" /\ holeIndices = <<>>))
       => RingArea(nd, outerNode) = Abs(InputArea(0))
  /\ RingsBuilt
       => \A k \in 1..Len(queue) :
            RingArea(nd, queue[k]) = -Abs(InputArea(HoleOf(nd[queue[k]].i)))

\* C11, its case: a square listed with a negative sum around a triangle listed
\* with a positive sum; both rings were linked backwards.
C11_Witness ==
  /\ RingsBuilt
  /\ Len(queue) = 1
  /\ InputArea(0) < 0
  /\ InputArea(1) > 0
  /\ RingArea(nd, outerNode) > 0
  /\ RingArea(nd, queue[1]) < 0

\* C12: what earclip returns is the list of indices it holds with offset added
\* to every one of them, the list being what earcut made of the buffer of
\* flatten, taken through every axis of tesselate when modulo is finite; when
\* modulo is Infinity tesselate is never entered, the list is the list of
\* earcut and the vertices are the numbers of the buffer of flatten.
C12_EarclipResult ==
  /\ pc = "returned" =>
       /\ Len(returned) = Len(indices)
       /\ \A k \in 1..Len(indices) : returned[k] = indices[k] + offset
       /\ data = flatten(polygon).vertices
       /\ ~infinity => axis = dim
       /\ infinity => indices = triangles /\ vertices = Doubles(data)
  /\ infinity => pc \notin {"tesselate", "tesselated"} /\ axis = 0 /\ slot = 0

\* C12, its case: earclip has returned with an offset of 1 after tesselate
\* added a vertex to the buffer of flatten.
C12_Witness ==
  /\ pc = "returned"
  /\ offset = 1
  /\ ~infinity
  /\ Len(vertices) > Len(data)
  /\ returned # <<>>

\* C13: a call of earclip or of tesselate with a modulo that is zero or
\* negative is turned down with an error: it comes to no normal end, neither
\* tesselate nor earclip returns.
C13_Rejected ==
  (modulo <= 0 /\ ~infinity) => pc \notin {"tesselated", "returned"}

\* the number of points in the rings before ring k of the polygon
RECURSIVE PointsBefore(_)
PointsBefore(k) ==
  IF k <= 1 THEN 0 ELSE PointsBefore(k - 1) + Len(polygon[k - 1])

\* earclip has called flatten
Flattened == stack = <<EarclipFrame>> /\ pc # "earclip"

NoPoints == polygon = <<>> \/ polygon[1] = <<>>

\* the numbers of every point stand together in the buffer, the points in the
\* order of their ring, the rings in their order, and every ring after the
\* first has its start in the list of hole starts
FlattenLayout ==
  (Flattened /\ ~NoPoints) =>
    /\ dim = Len(polygon[1][1])
    /\ Len(data) = dim * PointsBefore(Len(polygon) + 1)
    /\ \A k \in 1..Len(polygon) : \A j \in 1..Len(polygon[k]) : \A c \in 1..dim :
         data[(PointsBefore(k) + j - 1) * dim + c] = polygon[k][j][c]
    /\ Len(holeIndices) = Len(polygon) - 1
    /\ \A k \in 2..Len(polygon) : holeIndices[k - 1] = PointsBefore(k)

\* no ring, or no point in the first ring: nothing is raised, the buffer and
\* the list of hole starts are empty and dim is 2
FlattenEmpty ==
  (Flattened /\ NoPoints) =>
    pc # "threw" /\ data = <<>> /\ holeIndices = <<>> /\ dim = 2

\* C14: flatten lays out dim numbers a point in the order of the rings, with
\* one hole start for every ring after the first, the number of points of the
\* rings before it; and of no ring, or of a first ring without a point, it
\* makes an empty buffer, no hole start and dim = 2 without raising anything.
C14_Flatten == FlattenLayout /\ FlattenEmpty

\* the nodes of the ring through start, and the vertices they stand for
RECURSIVE ringNodesLoop(_, _, _)
ringNodesLoop(ar, p, start) ==
  IF ar[p].next = start THEN {p} ELSE {p} \cup ringNodesLoop(ar, ar[p].next, start)

RingNodes(ar, start) == ringNodesLoop(ar, start, start)

RingIndices(ar, start) == {ar[p].i : p \in RingNodes(ar, start)}

\* the state in which the call that ends in s reaches position p
RECURSIVE RunTo(_, _)
RunTo(s, p) == IF s.pc = p \/ Terminal(s) THEN s ELSE RunTo(Step(s), p)

\* the vertices of the holes still in the queue of s for which no bridge is
\* going to be found
RECURSIVE skippedFrom(_)
skippedFrom(s) ==
  IF ~EliminateHoleEn(s)
    THEN {}
    ELSE (IF findHoleBridge(s.nd, Head(s.queue), s.outerNode) = Null
            THEN RingIndices(s.nd, Head(s.queue))
            ELSE {})
         \cup skippedFrom(EliminateHoleDo(s))

\* the vertices of all the holes of the call for which no bridge was found
Skipped == skippedFrom(RunTo(Entry(data, holeIndices, dim), "eliminateHole"))

NoBridge ==
  /\ pc = "eliminateHole"
  /\ queue # <<>>
  /\ findHoleBridge(nd, Head(queue), outerNode) = Null

\* C15: a hole for which findHoleBridge finds no edge of the outer ring is
\* passed over and nothing is raised: the step leaves every node and link and
\* the outer ring as they were and goes on with the holes that remain; the
\* ring that earcutLinked is given holds no vertex of such a hole, and no
\* triangle of the result names one.
C15_HoleSkipped ==
  /\ [][NoBridge => /\ nd' = nd
                    /\ outerNode' = outerNode
                    /\ queue' = Tail(queue)
                    /\ pc' = IF queue' = <<>> THEN "bbox" ELSE "eliminateHole"]_vars
  /\ [](pc = "bbox" => RingIndices(nd, outerNode) \cap Skipped = {})
  /\ [](pc = "done" /\ holeIndices # <<>>
          => \A k \in 1..Len(triangles) : triangles[k] \notin Skipped)

\* C15, its case: the first hole lay to the left of the outer ring and was
\* passed over, the second was linked in, and the triangles name vertices of
\* the second and none of the first.
C15_Witness ==
  /\ data = SkipCase
  /\ pc = "done"
  /\ Skipped = {4, 5, 6}
  /\ \E k \in 1..Len(triangles) : triangles[k] \in {7, 8, 9}

\* a state of earcutLinked's loop of a call that uses the z-order curve
Hashed == InLoop(St) /\ invSize # Zero

\* the end of the same call made with invSize = 0
PlainRun ==
  Run(EarcutLinkedStartWith(RunTo(Entry(data, holeIndices, dim), "bbox"), NoBox))

HashedEars ==
  Hashed => \A p \in RingNodes(nd, Top(St).ear) :
              isEarHashed(nd, p, minX, minY, invSize) = isEar(nd, p)

HashedTriangles == (pc = "done" /\ invSize # Zero) => triangles = PlainRun.triangles

\* C16: in every state of a ring on which the z-order curve is in use,
\* isEarHashed and isEar answer the same for every node of the ring, and the
\* call ends with the triangles that it ends with when invSize is 0.
C16_HashedAsPlain == HashedEars /\ HashedTriangles

(***************************************************************************)
(* The rings that the call still works on.                                 *)
(***************************************************************************)
\* the nodes met from start along next, start among them
RECURSIVE orbitLoop(_, _, _)
orbitLoop(ar, p, seen) ==
  IF p \in seen THEN seen ELSE orbitLoop(ar, ar[p].next, seen \cup {p})

Orbit(ar, start) == orbitLoop(ar, start, {})

\* a frame whose ring is still to be worked on: a loop of earcutLinked that
\* has not handed its ring on, and the second half that waits in splitEarcut
LiveFrame(f) ==
  \/ (f.fn = "earcutLinked" /\ f.at \in {"loop", "stuck"})
  \/ (f.fn = "splitEarcut" /\ f.at = "first")

LiveFrames == SelectSeq(stack, LiveFrame)

\* one node of every live ring: the outer ring and the holes yet to be
\* bridged, then the rings of the frames
LiveRings ==
  (IF pc \in {"eliminateHoles", "eliminateHole", "bbox"} THEN <<outerNode>> ELSE <<>>)
  \o (IF pc = "eliminateHole" THEN queue ELSE <<>>)
  \o (IF pc = "earcutLinked" THEN [k \in 1..Len(LiveFrames) |-> LiveFrames[k].ear] ELSE <<>>)

Linked(ar, n) == ar[ar[n].next].prev = n /\ ar[ar[n].prev].next = n

\* C17: every node of a live ring is the prev of its next and the next of
\* its prev, following next from it leads back to it, and no node is on two
\* live rings.
C17_Rings ==
  /\ \A k \in 1..Len(LiveRings) : \A n \in Orbit(nd, LiveRings[k]) :
        /\ Linked(nd, n)
        /\ n \in Orbit(nd, nd[n].next)
  /\ \A j, k \in 1..Len(LiveRings) :
        j # k => Orbit(nd, LiveRings[j]) \cap Orbit(nd, LiveRings[k]) = {}

\* two live rings after a bridge, a removal and a split: the second half
\* waits while the first is cut
C17_Witness ==
  /\ pc = "earcutLinked"
  /\ holeIndices # <<>>
  /\ triangles # <<>>
  /\ Len(LiveRings) = 2
  /\ Cardinality(Orbit(nd, LiveRings[1])) >= 3
  /\ Cardinality(Orbit(nd, LiveRings[2])) >= 3

(***************************************************************************)
(* splitPolygon where the call makes it: on a bridge and its hole, and on  *)
(* the diagonal of splitEarcut.                                            *)
(***************************************************************************)
SamePoint(m, n) == m.i = n.i /\ m.x = n.x /\ m.y = n.y

\* two nodes more, copies of a and of b, the copy of b returned, and no
\* other node's vertex touched
SplitCopies(ar, a, b, sp) ==
  /\ Len(sp.nd) = Len(ar) + 2
  /\ SamePoint(sp.nd[Len(ar) + 1], ar[a])
  /\ SamePoint(sp.nd[Len(ar) + 2], ar[b])
  /\ sp.node = Len(ar) + 2
  /\ \A n \in 1..Len(ar) : SamePoint(sp.nd[n], ar[n])

WholeRing(ar, start) ==
  \A n \in Orbit(ar, start) : Linked(ar, n) /\ n \in Orbit(ar, ar[n].next)

\* a and b on one ring: the ring of a with the edge a -> b, the ring of the
\* copies with the edge b' -> a', no node on both
SplitInTwo(ar, a, b, sp) ==
  /\ b \in Orbit(ar, a)
  /\ WholeRing(sp.nd, a) /\ WholeRing(sp.nd, sp.node)
  /\ Orbit(sp.nd, a) \cap Orbit(sp.nd, sp.node) = {}
  /\ Orbit(sp.nd, a) \cup Orbit(sp.nd, sp.node)
       = Orbit(ar, a) \cup {Len(ar) + 1, Len(ar) + 2}
  /\ Cardinality(Orbit(sp.nd, a)) + Cardinality(Orbit(sp.nd, sp.node))
       = Cardinality(Orbit(ar, a)) + 2
  /\ sp.nd[a].next = b /\ sp.nd[b].prev = a
  /\ sp.nd[sp.node].next = Len(ar) + 1 /\ sp.nd[Len(ar) + 1].prev = sp.node

\* a and b on two rings: one ring of all their nodes and the two copies
JoinedInOne(ar, a, b, sp) ==
  /\ Orbit(ar, a) \cap Orbit(ar, b) = {}
  /\ WholeRing(sp.nd, a)
  /\ Orbit(sp.nd, a)
       = Orbit(ar, a) \cup Orbit(ar, b) \cup {Len(ar) + 1, Len(ar) + 2}
  /\ Cardinality(Orbit(sp.nd, a))
       = Cardinality(Orbit(ar, a)) + Cardinality(Orbit(ar, b)) + 2

BridgeNow == findHoleBridge(nd, Head(queue), outerNode)

DiagonalNow == findDiagonal(nd, Top(St).ear, Top(St).ear, nd[nd[Top(St).ear].next].next)

SplitOfBridge(a, b) ==
  a # Null => /\ SplitCopies(nd, a, b, splitPolygon(nd, a, b))
              /\ JoinedInOne(nd, a, b, splitPolygon(nd, a, b))

SplitOfDiagonal(d) ==
  d[1] # Null => /\ SplitCopies(nd, d[1], d[2], splitPolygon(nd, d[1], d[2]))
                 /\ SplitInTwo(nd, d[1], d[2], splitPolygon(nd, d[1], d[2]))

\* C18: splitPolygon(a, b) adds two nodes, copies of a and of b with their
\* index and coordinates, and returns the copy of b; called on a bridge and
\* a hole it leaves one ring of n1 + n2 + 2 nodes, called on a diagonal of a
\* ring of n nodes it leaves two rings apart, of n + 2 nodes together, one
\* with the edge a -> b and one with the edge b' -> a'.
C18_SplitPolygon ==
  /\ EliminateHoleEn(St) => SplitOfBridge(BridgeNow, Head(queue))
  /\ SplitPassEn(St) => SplitOfDiagonal(DiagonalNow)

\* a ring that took a hole over a bridge is split at a diagonal
C18_Witness ==
  /\ SplitPassEn(St)
  /\ DiagonalNow[1] # Null
  /\ holeIndices # <<>>
  /\ \E n \in Orbit(nd, Top(St).ear) : n > Len(data) \div dim

(***************************************************************************)
(* The bridge of the first hole of a simple polygon.                       *)
(***************************************************************************)
\* no hole is bridged yet: the outer ring is the ring of the input
FirstHole == pc = "eliminateHole" /\ Len(queue) = Len(holeIndices)

Leftmost(ar, h) ==
  \A p \in Orbit(ar, h) : ar[h].x < ar[p].x \/ (ar[h].x = ar[p].x /\ ar[h].y <= ar[p].y)

\* the edge from p to its next has no point on the segment from m to h; an
\* edge that ends at m or at h has no other point on it
EdgeOff(ar, m, h, p) ==
  IF p \in {m, h}
    THEN ~OnSeg(ar[m].i, ar[h].i, ar[ar[p].next].i)
    ELSE IF ar[p].next \in {m, h}
           THEN ~OnSeg(ar[m].i, ar[h].i, ar[p].i)
           ELSE ~SegsMeet(ar[m].i, ar[h].i, ar[p].i, ar[ar[p].next].i)

BridgeClear(ar, outer, h, m) ==
  /\ m \in Orbit(ar, outer)
  /\ Leftmost(ar, h)
  /\ \A p \in Orbit(ar, outer) \cup Orbit(ar, h) : EdgeOff(ar, m, h, p)

\* C19: for a simple outer ring and a simple hole strictly inside it,
\* findHoleBridge returns a node of the outer ring, and the segment from it
\* to the leftmost vertex of the hole has no point on an edge of the outer
\* ring or of the hole other than its two ends.
C19_Bridge ==
  (FirstHole /\ SimplePolygon) => BridgeClear(nd, outerNode, Head(queue), BridgeNow)

\* the endpoint of the edge that the ray hits is hidden from the hole, and
\* the bridge is another node
C19_Witness ==
  /\ FirstHole
  /\ SimplePolygon
  /\ BridgeNow # bridgeRay(nd, Head(queue), outerNode, outerNode, NegInf, Null).m

(***************************************************************************)
(* The passes of earcutLinked, read off the stack of calls.                *)
(***************************************************************************)
\* the frame at k was called by the frame below it: pass 0 by earcut or by
\* splitEarcut, pass 1 and 2 by the pass before, splitEarcut by pass 2; and a
\* loop with a call above it has made its one call
TierOf(stk, k) ==
  IF stk[k].fn = "splitEarcut"
    THEN /\ k > 1
         /\ stk[k - 1].fn = "earcutLinked"
         /\ stk[k - 1].pass = 2
    ELSE /\ stk[k].pass \in 0..2
         /\ stk[k].pass = 0 => (k = 1 \/ stk[k - 1].fn = "splitEarcut")
         /\ stk[k].pass > 0 => /\ k > 1
                               /\ stk[k - 1].fn = "earcutLinked"
                               /\ stk[k - 1].pass = stk[k].pass - 1
         /\ k < Len(stk) => stk[k].at = "called"

TiersInOrder == \A k \in 1..Len(stack) : TierOf(stack, k)

\* the loop has come back to stop: no node of its ring tests as an ear
LapWithoutEar ==
  (pc = "earcutLinked" /\ stack # <<>> /\ Top(St).fn = "earcutLinked" /\ Top(St).at = "stuck")
    => \A n \in Orbit(nd, Top(St).ear) : ~IsEar(St, n)

\* a loop makes its call from the end of a lap without an ear, and a frame is
\* pushed by such a call, by splitEarcut for its second half, or by earcut
EscalatesWhenStuck ==
  /\ \A k \in 1..Len(stack) :
       (k <= Len(stack') /\ stack[k].at # "called" /\ stack'[k].at = "called")
         => k = Len(stack) /\ stack[k].at = "stuck" /\ LapWithoutEar
  /\ Len(stack') > Len(stack)
       => \/ stack = <<>> /\ pc = "bbox"
          \/ stack # <<>> /\ Top(St).at = "stuck" /\ stack'[Len(stack)].at = "called"
          \/ stack # <<>> /\ Top(St).fn = "splitEarcut" /\ Top(St).at = "first"

\* a loop that has made its call does nothing more: its frame stays as it is
\* until it is popped, and it is popped with no triangle added
EscalatesOnce ==
  /\ \A k \in 1..Len(stack) :
       (stack[k].at = "called" /\ k <= Len(stack')) => stack'[k] = stack[k]
  /\ (stack # <<>> /\ Top(St).at = "called")
       => stack' = Pop(stack) /\ triangles' = triangles /\ nd' = nd

\* splitEarcut without a valid diagonal: the call returns with the ring and
\* the triangles as they were
NoDiagonal == Stuck(St, 2) /\ DiagonalNow[1] = Null

Abandons ==
  NoDiagonal => /\ stack' = SetTop(stack, [Top(St) EXCEPT !.at = "called"])
                /\ triangles' = triangles
                /\ nd' = nd

PassStep == TiersInOrder /\ TiersInOrder' /\ EscalatesWhenStuck /\ EscalatesOnce /\ Abandons

\* C20: a loop of earcutLinked calls the next tier (pass 1 from pass 0, pass
\* 2 from pass 1, splitEarcut from pass 2) only at the end of a lap in which
\* no node of the ring tests as an ear, calls once and is then only popped;
\* a pass 0 other than the first is called by splitEarcut alone; and
\* splitEarcut without a valid diagonal returns with no triangle added, the
\* loops below it being popped with none added either.
C20_Tiers == [][PassStep]_vars

\* pass 2 is stuck and its ring has no valid diagonal
C20_Witness == NoDiagonal /\ Len(stack) >= 3

(***************************************************************************)
(* What one step of each tier takes off the ring.                          *)
(***************************************************************************)
Size(ar, start) == Cardinality(Orbit(ar, start))

\* the loop is about to cut the ear off
CutsEar == CutEarEn(St)

\* one triangle (prev, ear, next) more, and the ring without the ear
EarCut(s, t) ==
  /\ t.triangles = s.triangles \o <<s.nd[s.nd[Top(s).ear].prev].i, s.nd[Top(s).ear].i,
                                    s.nd[s.nd[Top(s).ear].next].i>>
  /\ Orbit(t.nd, Top(t).ear) = Orbit(s.nd, Top(s).ear) \ {Top(s).ear}
  /\ Size(t.nd, Top(t).ear) = Size(s.nd, Top(s).ear) - 1
  /\ WholeRing(t.nd, Top(t).ear)

\* the loop of cureLocalIntersections on the ring that pass 1 hands to it,
\* before its last filterPoints
CureStart(s) == filterPoints(s.nd, Top(s).ear, Top(s).ear)

CureEnd(s, r) == cureLoop(r.nd, s.triangles, r.node, r.node)

CureFixes(s, c) == (Len(c.triangles) - Len(s.triangles)) \div 3

\* the triangles of before, one more for each fix, and two nodes fewer for
\* each fix
Cured(s, r, c) ==
  /\ SubSeq(c.triangles, 1, Len(s.triangles)) = s.triangles
  /\ (Len(c.triangles) - Len(s.triangles)) % 3 = 0
  /\ Orbit(c.nd, c.node) \subseteq Orbit(r.nd, r.node)
  /\ Size(c.nd, c.node) = Size(r.nd, r.node) - 2 * CureFixes(s, c)
  /\ WholeRing(c.nd, c.node)

\* the first fix of the lap: the triangle (a, p, b), a = p.prev, b = p.next.next
FirstFix(s, r, c) ==
  (CureFixes(s, c) > 0) =>
    \E p \in Orbit(r.nd, r.node) :
      SubSeq(c.triangles, Len(s.triangles) + 1, Len(s.triangles) + 3)
        = <<r.nd[r.nd[p].prev].i, r.nd[p].i, r.nd[r.nd[r.nd[p].next].next].i>>

\* the two rings that splitPolygon leaves of a ring of n nodes
Halves(ar, a, sp, n) ==
  /\ Size(sp.nd, a) >= 3 /\ Size(sp.nd, a) < n
  /\ Size(sp.nd, sp.node) >= 3 /\ Size(sp.nd, sp.node) < n

SplitShrinks(d) ==
  d[1] # Null => Halves(nd, d[1], splitPolygon(nd, d[1], d[2]), Size(nd, Top(St).ear))

\* C21: an ear cut adds the one triangle (prev, ear, next) and takes the ear
\* and no other node off the ring; the loop of cureLocalIntersections adds
\* one triangle and takes two nodes off for each of its fixes; the diagonal
\* of splitEarcut cuts a ring of n nodes in two rings of 3 to n - 1 nodes.
C21_Shrinks ==
  /\ CutsEar => EarCut(St, CutEarDo(St))
  /\ Stuck(St, 1) => /\ Cured(St, CureStart(St), CureEnd(St, CureStart(St)))
                     /\ FirstFix(St, CureStart(St), CureEnd(St, CureStart(St)))
  /\ Stuck(St, 2) => SplitShrinks(DiagonalNow)

\* pass 1 is about to cure a crossing
C21_Witness == Stuck(St, 1) /\ CureFixes(St, CureEnd(St, CureStart(St))) > 0

(***************************************************************************)
(* The ear test, said of the ring as a whole.                              *)
(***************************************************************************)
\* the products of pointInTriangle for the corner at n and the node p
EarSide1(ar, n, p) ==
  (ar[ar[n].next].x - ar[p].x) * (ar[ar[n].prev].y - ar[p].y)
    - (ar[ar[n].prev].x - ar[p].x) * (ar[ar[n].next].y - ar[p].y)

EarSide2(ar, n, p) ==
  (ar[ar[n].prev].x - ar[p].x) * (ar[n].y - ar[p].y)
    - (ar[n].x - ar[p].x) * (ar[ar[n].prev].y - ar[p].y)

EarSide3(ar, n, p) ==
  (ar[n].x - ar[p].x) * (ar[ar[n].next].y - ar[p].y)
    - (ar[ar[n].next].x - ar[p].x) * (ar[n].y - ar[p].y)

\* p lies in the triangle (prev, n, next), its boundary counted
InEar(ar, n, p) == EarSide1(ar, n, p) >= 0 /\ EarSide2(ar, n, p) >= 0 /\ EarSide3(ar, n, p) >= 0

\* p lies in the triangle and off its boundary
StrictlyInEar(ar, n, p) ==
  EarSide1(ar, n, p) > 0 /\ EarSide2(ar, n, p) > 0 /\ EarSide3(ar, n, p) > 0

Turn(ar, p) == area(ar, ar[p].prev, p, ar[p].next)

\* the nodes of the ring of n other than n and its two neighbours
Others(ar, n) == Orbit(ar, n) \ {ar[n].prev, n, ar[n].next}

\* the rings that earcutLinked tests with isEar
Tested == InLoop(St) /\ invSize = Zero

\* the test as the claim words it: a convex vertex strictly inside blocks
EarAsWorded(ar, n) ==
  /\ Turn(ar, n) < 0
  /\ \A p \in Others(ar, n) : ~(StrictlyInEar(ar, n, p) /\ Turn(ar, p) < 0)

\* the test as it is made: a vertex in the triangle or on its boundary blocks
\* when its own corner is reflex or straight
EarAsMade(ar, n) ==
  /\ Turn(ar, n) < 0
  /\ \A p \in Others(ar, n) : ~(InEar(ar, n, p) /\ Turn(ar, p) >= 0)

\* C22 as worded: isEar(ear) is true exactly when the area of (prev, ear,
\* next) is negative and no other vertex of the ring lies strictly inside
\* the triangle while being non-reflex.
C22_AsWorded ==
  Tested => \A n \in Orbit(nd, Top(St).ear) : isEar(nd, n) = EarAsWorded(nd, n)

\* C22: isEar(ear) is true exactly when the area of (prev, ear, next) is
\* negative and no other node of the ring lies in the triangle, boundary
\* included, with a corner of its own that is reflex or straight (area >= 0);
\* a convex vertex in the triangle does not block the ear.
C22_IsEar ==
  Tested => \A n \in Orbit(nd, Top(St).ear) : isEar(nd, n) = EarAsMade(nd, n)

\* a corner that is convex and no ear, with nothing but boundary vertices in
\* its way, and a corner that is an ear with a convex vertex strictly inside
C22_Witness ==
  /\ Tested
  /\ \E n \in Orbit(nd, Top(St).ear) :
       /\ Turn(nd, n) < 0
       /\ ~isEar(nd, n)
       /\ \A p \in Others(nd, n) : ~StrictlyInEar(nd, n, p)

(***************************************************************************)
(* filterPoints(start), where pass 0 and pass 1 call it.                   *)
(***************************************************************************)
\* the node would be taken off by filterPoints: no Steiner point, and equal
\* to its successor or in line with its two neighbours
Removable(ar, p) ==
  /\ ~ar[p].steiner
  /\ (equals(ar, p, ar[p].next) \/ area(ar, ar[p].prev, p, ar[p].next) = 0)

SteinerNodes(ar, start) == {p \in Orbit(ar, start) : ar[p].steiner}

\* r = filterPoints(start) on the ring of start in ar
Filtered(ar, start, r) ==
  /\ SteinerNodes(ar, start) \subseteq Orbit(r.nd, r.node)
  /\ r.node \in Orbit(ar, start)
  /\ Orbit(r.nd, r.node) \subseteq Orbit(ar, start)
  /\ WholeRing(r.nd, r.node)
  /\ \/ Size(r.nd, r.node) = 1
     \/ \A p \in Orbit(r.nd, r.node) : ~Removable(r.nd, p)

\* the calls made with one argument: pass 0, pass 1, and the end of
\* cureLocalIntersections
FilterCall == Stuck(St, 0) \/ Stuck(St, 1)

CureFiltersWell(c) == Filtered(c.nd, c.node, filterPoints(c.nd, c.node, c.node))

\* C23: filterPoints(start) returns; it takes no Steiner node off the ring,
\* returns a node of the ring, and leaves a ring of one node or a ring on
\* which no node other than a Steiner node is equal to its successor or in
\* line with its two neighbours.
C23_FilterPoints ==
  /\ FilterCall => Filtered(nd, Top(St).ear, CureStart(St))
  /\ Stuck(St, 1) => CureFiltersWell(CureEnd(St, CureStart(St)))

\* a Steiner node that is in line with its neighbours stays on a ring from
\* which other nodes are filtered
C23_Witness ==
  /\ FilterCall
  /\ Size(CureStart(St).nd, CureStart(St).node) > 1
  /\ Size(CureStart(St).nd, CureStart(St).node) < Size(nd, Top(St).ear)
  /\ \E p \in SteinerNodes(nd, Top(St).ear) :
       equals(nd, p, nd[p].next) \/ area(nd, nd[p].prev, p, nd[p].next) = 0

(***************************************************************************)
(* The diagonal of no length.                                              *)
(***************************************************************************)
\* the first branch of isValidDiagonal: the diagonal is locally visible
LocallyVisible(ar, a, b) ==
  /\ locallyInside(ar, a, b)
  /\ locallyInside(ar, b, a)
  /\ middleInside(ar, a, b)
  /\ (area(ar, ar[a].prev, a, ar[b].prev) # 0 \/ area(ar, a, ar[b].prev, b) # 0)

\* a and b at one point, no neighbours, the diagonal crossing no edge and
\* not locally visible
ZeroLength(ar, a, b) ==
  /\ equals(ar, a, b)
  /\ ar[ar[a].next].i # ar[b].i
  /\ ar[ar[a].prev].i # ar[b].i
  /\ ~intersectsPolygon(ar, a, b)
  /\ ~LocallyVisible(ar, a, b)

\* the pairs of nodes that splitEarcut may hand to isValidDiagonal
SplitPairs ==
  {d \in Orbit(nd, Top(St).ear) \X Orbit(nd, Top(St).ear) : nd[d[1]].i # nd[d[2]].i}

\* C24 as worded: a diagonal of no length is accepted only when the corners
\* at a and at b are convex, area(prev, node, next) < 0.
C24_AsWorded ==
  Stuck(St, 2) => \A d \in SplitPairs :
                    (ZeroLength(nd, d[1], d[2]) /\ isValidDiagonal(nd, d[1], d[2]))
                      => (Turn(nd, d[1]) < 0 /\ Turn(nd, d[2]) < 0)

\* C24: a diagonal of no length is accepted exactly when the corners at a
\* and at b are both reflex, area(prev, node, next) > 0, the sign opposite to
\* the convex corner of the ear test and of locallyInside.
C24_ZeroLength ==
  Stuck(St, 2) => \A d \in SplitPairs :
                    ZeroLength(nd, d[1], d[2])
                      => (isValidDiagonal(nd, d[1], d[2])
                            = (Turn(nd, d[1]) > 0 /\ Turn(nd, d[2]) > 0))

\* splitEarcut is about to cut the ring at a diagonal of no length
C24_Witness ==
  /\ Stuck(St, 2)
  /\ DiagonalNow[1] # Null
  /\ ZeroLength(nd, DiagonalNow[1], DiagonalNow[2])

(***************************************************************************)
(* The key of a vertex on the z-order curve.                               *)
(***************************************************************************)
OuterXs == {X(k) : k \in RingLo(0)..(RingHi(0) - 1)}

OuterYs == {Y(k) : k \in RingLo(0)..(RingHi(0) - 1)}

Greatest(S) == CHOOSE v \in S : \A w \in S : w <= v

\* the longer side of the bounding box of the outer ring
BoxSide == Max2(Greatest(OuterXs) - minX, Greatest(OuterYs) - minY)

InBox(n) ==
  /\ minX <= n.x /\ n.x <= minX + BoxSide
  /\ minY <= n.y /\ n.y <= minY + BoxSide

\* v on the scale of 15 bits: min at 0, min + BoxSide at 32767
Quantised(v, min) == (32767 * (v - min)) \div BoxSide

RECURSIVE Interleaved(_, _, _)
\* bit k of qx at bit 2k and bit k of qy at bit 2k + 1, for the bits from k up
Interleaved(qx, qy, k) ==
  IF k > 14
    THEN 0
    ELSE (((qx \div 2^k) % 2) + 2 * ((qy \div 2^k) % 2)) * 4^k + Interleaved(qx, qy, k + 1)

KeyOf(n) == Interleaved(Quantised(n.x, minX), Quantised(n.y, minY), 0)

SameCell(m, n) ==
  /\ Quantised(m.x, minX) = Quantised(n.x, minX)
  /\ Quantised(m.y, minY) = Quantised(n.y, minY)

BoxNodes == {n \in Orbit(nd, Top(St).ear) : InBox(nd[n])}

\* C25: on a ring that is indexed, the z of a vertex in the bounding box is
\* the interleave of its x and y on the scale of 15 bits (the minimum of the
\* box at 0, the far end of its longer side at 32767), and two vertices that
\* differ on that scale have different z.
C25_Quantised ==
  Hashed => /\ \A n \in BoxNodes : nd[n].z = KeyOf(nd[n])
            /\ \A m, n \in BoxNodes : ~SameCell(nd[m], nd[n]) => nd[m].z # nd[n].z

(***************************************************************************)
(* The list that indexCurve leaves.                                        *)
(***************************************************************************)
RECURSIVE zChain(_, _, _)
\* the nodes from p along nextZ, at most k of them
zChain(ar, p, k) ==
  IF p = Null \/ k = 0 THEN <<>> ELSE <<p>> \o zChain(ar, ar[p].nextZ, k - 1)

\* the place of the node n in the sequence L
PlaceIn(L, n) == CHOOSE k \in 1..Len(L) : L[k] = n

\* Z is the ring R sorted by z, nodes of one z in the order of R
SortedStably(ar, Z, R) ==
  /\ Len(Z) = Len(R)
  /\ {Z[k] : k \in 1..Len(Z)} = {R[k] : k \in 1..Len(R)}
  /\ \A j, k \in 1..Len(Z) :
       j < k => \/ ar[Z[j]].z < ar[Z[k]].z
                \/ (ar[Z[j]].z = ar[Z[k]].z /\ PlaceIn(R, Z[j]) < PlaceIn(R, Z[k]))

\* the links of the list Z: null at both ends, prevZ the inverse of nextZ
ChainedBothWays(ar, Z) ==
  /\ ar[Z[1]].prevZ = Null
  /\ ar[Z[Len(Z)]].nextZ = Null
  /\ \A k \in 1..(Len(Z) - 1) : ar[Z[k]].nextZ = Z[k + 1] /\ ar[Z[k + 1]].prevZ = Z[k]

ZHeads(ar, R) == {k \in 1..Len(R) : ar[R[k]].prevZ = Null}

\* r is the arena after indexCurve(start), R the ring from start before it
IndexedFrom(r, R, head) ==
  /\ SortedStably(r, zChain(r, head, Len(r)), R)
  /\ ChainedBothWays(r, zChain(r, head, Len(r)))

Indexed(r, R) ==
  /\ Cardinality(ZHeads(r, R)) = 1
  /\ \A k \in ZHeads(r, R) : IndexedFrom(r, R, R[k])

IndexCurveNow(start) == indexCurve(nd, start, minX, minY, invSize)

\* C26: after indexCurve(start) the list of prevZ and nextZ holds the nodes
\* of the ring, each once, in non-decreasing z, nodes of the same z in the
\* order of the ring from start; its head has prevZ = null, its tail nextZ =
\* null, and n.nextZ.prevZ = n for every other node.
C26_IndexCurve ==
  Hashed => \A start \in Orbit(nd, Top(St).ear) :
              Indexed(IndexCurveNow(start), ringFrom(nd, start, start))

\* a ring on which two nodes have the same z and the sort moves a node
C26_Witness ==
  /\ Hashed
  /\ Top(St).pass = 0
  /\ zChain(nd, Top(St).ear, Len(nd)) # ringFrom(nd, Top(St).ear, Top(St).ear)
  /\ \E m, n \in Orbit(nd, Top(St).ear) : m # n /\ nd[m].z = nd[n].z
  /\ Indexed(nd, ringFrom(nd, Top(St).ear, Top(St).ear))

(***************************************************************************)
(* The list of prevZ and nextZ against the ring while ears are tested.     *)
(***************************************************************************)
RECURSIVE zChainBack(_, _, _)
\* the nodes from p along prevZ, at most k of them
zChainBack(ar, p, k) ==
  IF p = Null \/ k = 0 THEN <<>> ELSE <<p>> \o zChainBack(ar, ar[p].prevZ, k - 1)

Members(L) == {L[k] : k \in 1..Len(L)}

\* the nodes reached from p through prevZ and nextZ
ZReach(ar, p) == Members(zChain(ar, p, Len(ar))) \cup Members(zChainBack(ar, p, Len(ar)))

\* the call works on one half of a split ring
InHalf == \E k \in 1..Len(stack) : stack[k].fn = "splitEarcut"

\* C29: when isEarHashed is called on a node, the nodes reached from it
\* through prevZ and nextZ are the nodes of its ring: no removed node, no
\* node of the other half of a split, and every node of the ring.
C29_ZListIsRing ==
  Hashed => ZReach(nd, Top(St).ear) = Orbit(nd, Top(St).ear)

\* an ear is tested in a half of a split ring after nodes were removed
C29_Witness ==
  /\ Hashed
  /\ InHalf
  /\ \E n \in Orbit(nd, Top(St).ear) : nd[n].prevZ # Null /\ nd[n].nextZ # Null
  /\ ZReach(nd, Top(St).ear) = Orbit(nd, Top(St).ear)

(***************************************************************************)
(* The number of triangles of a call.                                      *)
(***************************************************************************)
\* the number of vertices in the buffer
Vertices == Len(data) \div dim

\* the holes for which eliminateHole finds a bridge, counted from s on:
\* a bridge is the one step of eliminateHoles' second loop that adds nodes
RECURSIVE MergedFrom(_)
MergedFrom(s) ==
  IF Terminal(s) \/ s.pc = "bbox"
    THEN 0
    ELSE (IF s.pc = "eliminateHole" /\ Len(Step(s).nd) > Len(s.nd) THEN 1 ELSE 0)
         + MergedFrom(Step(s))

Merged == MergedFrom(Entry(data, holeIndices, dim))

Returned == Len(triangles) \div 3

\* the claim as worded: the bound for every buffer, the empty one included
C28_AsWorded ==
  pc = "done" => Len(triangles) % 3 = 0 /\ Returned <= Vertices + 2 * Merged - 2

\* C28: the list of indices that earcut returns has a length that is a
\* multiple of 3, and for a buffer of two vertices or more the number of
\* triangles is at most n + 2h - 2, n the number of vertices of the buffer
\* and h the number of holes merged into the outer ring.
C28_Count ==
  pc = "done" => /\ Len(triangles) % 3 = 0
                 /\ (Vertices >= 2 => Returned <= Vertices + 2 * Merged - 2)

\* a call with a merged hole ends with as many triangles as the bound allows
C28_Witness ==
  /\ pc = "done"
  /\ Merged > 0
  /\ Returned = Vertices + 2 * Merged - 2

(***************************************************************************)
(* Arithmetic without rounding on the doubles of the vertex buffer.  A     *)
(* natural number is the sequence of its digits below 2^15, the lowest     *)
(* first; an exact number is (p - n) * 2^e for two natural numbers p, n.   *)
(***************************************************************************)
DigitOr0(a) == IF a = <<>> THEN 0 ELSE Head(a)

Rest(a) == IF a = <<>> THEN a ELSE Tail(a)

Carried(carry) == IF carry = 0 THEN <<>> ELSE <<carry>>

RECURSIVE NatAdd(_, _, _)
NatAddDigit(a, b, s) == <<s % 2^15>> \o NatAdd(Rest(a), Rest(b), s \div 2^15)

NatAdd(a, b, carry) ==
  IF a = <<>> /\ b = <<>>
    THEN Carried(carry)
    ELSE NatAddDigit(a, b, DigitOr0(a) + DigitOr0(b) + carry)

\* a * d + carry for a digit d
RECURSIVE NatScale(_, _, _)
NatScaleDigit(a, d, t) == <<t % 2^15>> \o NatScale(Tail(a), d, t \div 2^15)

NatScale(a, d, carry) ==
  IF a = <<>> THEN Carried(carry) ELSE NatScaleDigit(a, d, Head(a) * d + carry)

RECURSIVE NatMul(_, _)
NatMul(a, b) ==
  IF b = <<>> THEN <<>> ELSE NatAdd(NatScale(a, Head(b), 0), <<0>> \o NatMul(a, Tail(b)), 0)

\* a * 2^k
NatShl(a, k) == [j \in 1..(k \div 15) |-> 0] \o NatScale(a, 2^(k % 15), 0)

\* -1, 0 or 1 as a is less than, equal to or greater than b
RECURSIVE NatCmp(_, _)
NatCmpDigit(higher, x, y) ==
  IF higher # 0 THEN higher ELSE IF x < y THEN -1 ELSE IF x > y THEN 1 ELSE 0

NatCmp(a, b) ==
  IF a = <<>> /\ b = <<>>
    THEN 0
    ELSE NatCmpDigit(NatCmp(Rest(a), Rest(b)), DigitOr0(a), DigitOr0(b))

Digits(a) == <<a.lo % 2^15, a.lo \div 2^15, a.hi % 2^15, a.hi \div 2^15>>

\* the value of the finite double a
ExactOf(a) ==
  IF a.neg
    THEN [p |-> <<>>, n |-> Digits(a), e |-> a.e]
    ELSE [p |-> Digits(a), n |-> <<>>, e |-> a.e]

ExactAt(x, e) == [p |-> NatShl(x.p, x.e - e), n |-> NatShl(x.n, x.e - e), e |-> e]

ExactAddAt(x, y) == [p |-> NatAdd(x.p, y.p, 0), n |-> NatAdd(x.n, y.n, 0), e |-> x.e]

ExactAdd(x, y) ==
  IF x.e <= y.e THEN ExactAddAt(x, ExactAt(y, x.e)) ELSE ExactAddAt(ExactAt(x, y.e), y)

ExactNeg(x) == [p |-> x.n, n |-> x.p, e |-> x.e]

ExactSub(x, y) == ExactAdd(x, ExactNeg(y))

ExactMul(x, y) ==
  [p |-> NatAdd(NatMul(x.p, y.p), NatMul(x.n, y.n), 0),
   n |-> NatAdd(NatMul(x.p, y.n), NatMul(x.n, y.p), 0),
   e |-> x.e + y.e]

\* -1, 0 or 1
ExactSign(x) == NatCmp(x.p, x.n)

(***************************************************************************)
(* The triangles a split puts in the place of one, by their first two      *)
(* coordinates.                                                            *)
(***************************************************************************)
\* coordinate k (0, 1) of vertex i of the buffer vs
ExactCoord(vs, i, k) == ExactOf(At(vs, i * dim + k))

Across(vs, a, b, k) == ExactSub(ExactCoord(vs, b, k), ExactCoord(vs, a, k))

\* twice the signed area of the triangle (a, b, c)
Area2(vs, a, b, c) ==
  ExactSub(ExactMul(Across(vs, a, b, 0), Across(vs, a, c, 1)),
           ExactMul(Across(vs, a, c, 0), Across(vs, a, b, 1)))

\* the call that the loop of tesselate makes next
SplitNow ==
  splitIfNecessary(At(indices, slot), At(indices, slot + 1), At(indices, slot + 2),
                   vertices, indices, dim, axis, FromInt(modulo))

Splitting ==
  /\ pc = "tesselate"
  /\ axis < dim
  /\ slot < Len(indices)
  /\ SplitNow.triangle # <<>>

\* the triangles pushed by the split, then the one it returns
PiecesOf(r) == SubSeq(r.indices, Len(indices) + 1, Len(r.indices)) \o r.triangle

RECURSIVE AreaSum(_, _, _)
AreaSum(vs, ix, t) ==
  IF 3 * t >= Len(ix)
    THEN ExactOf(Zero)
    ELSE ExactAdd(Area2(vs, At(ix, 3 * t), At(ix, 3 * t + 1), At(ix, 3 * t + 2)),
                  AreaSum(vs, ix, t + 1))

\* the triangle in the slot, as the split finds it
SlotArea(vs) == Area2(vs, At(indices, slot), At(indices, slot + 1), At(indices, slot + 2))

\* no piece is turned the other way: a piece is flat or has the sign of the
\* triangle in the slot
TurnedAs(vs, ix, orig) ==
  \A t \in 0..(Len(ix) \div 3 - 1) :
    ExactSign(Area2(vs, At(ix, 3 * t), At(ix, 3 * t + 1), At(ix, 3 * t + 2))) \in {0, orig}

SameTurn(r) == TurnedAs(r.vertices, PiecesOf(r), ExactSign(SlotArea(r.vertices)))

SameArea(r) ==
  ExactSign(ExactSub(AreaSum(r.vertices, PiecesOf(r), 0), SlotArea(r.vertices))) = 0

\* vertex v is on the line through an edge of the triangle in the slot
OnAnEdge(vs, v) ==
  \E j \in 0..2 :
    ExactSign(Area2(vs, At(indices, slot + j), At(indices, slot + ((j + 1) % 3)), v)) = 0

\* the vertices that the split pushes
NewVertices(r) == (Len(vertices) \div dim)..(Len(r.vertices) \div dim - 1)

\* createVertex has rounded no new vertex off its edge
Unrounded(r) == \A v \in NewVertices(r) : OnAnEdge(r.vertices, v)

Along(vs, t, k, ax) == At(vs, t[k] * dim + ax)

Lowest(vs, t, ax) == FMin(Along(vs, t, 1, ax), FMin(Along(vs, t, 2, ax), Along(vs, t, 3, ax)))

Highest(vs, t, ax) == FMax(Along(vs, t, 1, ax), FMax(Along(vs, t, 2, ax), Along(vs, t, 3, ax)))

\* the largest multiple of m that is smaller than the double hi
LastMultiple(hi, m) == m * ((-Floor(FNeg(hi)) - 1) \div m)

CountFrom(first, last, m) == IF last < first THEN 0 ELSE (last - first) \div m + 1

\* the number of multiples of modulo strictly between the smallest and the
\* largest coordinate of the triangle t on axis ax
GridInside(vs, t, ax) ==
  CountFrom(NextMultiple(Lowest(vs, t, ax), modulo),
            LastMultiple(Highest(vs, t, ax), modulo), modulo)

SlotTriangle == SubSeq(indices, slot + 1, slot + 3)

\* the triangle that goes back into the slot has fewer grid lines inside
FewerInside(r) ==
  GridInside(r.vertices, r.triangle, axis) < GridInside(vertices, SlotTriangle, axis)

\* the triangles that the split pushes, the returned one left out
Pushed(r) == SubSeq(r.indices, Len(indices) + 1, Len(r.indices))

\* the loop finds nothing to split in a pushed triangle when it comes to it
\* on this axis: its corners and their coordinates stay as they are
Settled(r, t) ==
  splitIfNecessary(At(Pushed(r), 3 * t), At(Pushed(r), 3 * t + 1), At(Pushed(r), 3 * t + 2),
                   r.vertices, r.indices, dim, axis, FromInt(modulo)).triangle = <<>>

FanSettled(r) == \A t \in 0..(Len(Pushed(r)) \div 3 - 1) : Settled(r, t)

\* C30: tesselate terminates for every buffer, list of triangles and modulo
\* > 0, for these two reasons: when a split has put a triangle back into its
\* slot, fewer grid lines lie strictly inside its extent on the axis than
\* before the split, and no triangle that a split has pushed is split again
\* on that axis.
C30_Progress == Splitting => (FewerInside(SplitNow) /\ FanSettled(SplitNow))

====
